---- MODULE Spec2Model ----
(***************************************************************************)
(* A model of the sp3 library: the Sp3c reader (header and data blocks),   *)
(* the Sp3Flag bitset, the SvInterpolator and the Neville interpolation.   *)
(*                                                                         *)
(* Conventions.  A data section is a sequence of lines; every line is a    *)
(* record of the fixed-column fields the parser reads from it.  A stream   *)
(* position is the index of the next unread line (Len+1 is the physical    *)
(* end of the file) plus a flag telling that the position is in the        *)
(* middle of that line.  Times are integers (ticks), real numbers of the   *)
(* interpolation are exact rationals.                                      *)
(***************************************************************************)
EXTENDS Integers, Sequences, FiniteSets, TLC

VARIABLES
  head,     \* the header of the file
  file,     \* the lines of the data section (what follows the header)
  rd,       \* __istream: [pos, mid, eof, fail]
  blk,      \* the caller's Sp3DataBlock, reused from call to call
  op,       \* the operation that ran last
  req,      \* the satellite id passed to the last get_next_data_block
  ret,      \* the value the last operation returned
  k,        \* get_next_data_block calls made since the cursor was at start of data
  hdr,      \* what read_header stored: [num_epochs, sat_vec, interval, start_epoch]
  itp,      \* the SvInterpolator
  out       \* what the last interpolation wrote to its output arguments

vars == <<head, file, rd, blk, op, req, ret, k, hdr, itp, out>>

----------------------------------------------------------------------------
(* Bounds of the model *)

MaxLines == 4

----------------------------------------------------------------------------
(* SatelliteId: three characters; NUL is the terminating zero byte *)

NUL == "NUL"

SAT_ID_CHARS == 3

\* strncmp(a, b, n) == 0: bytes are compared up to n or up to the first NUL
RECURSIVE StrnEq(_, _, _, _)
StrnEq(a, b, i, n) ==
  IF i > n THEN TRUE
  ELSE IF a[i] # b[i] THEN FALSE
  ELSE IF a[i] = NUL THEN TRUE
  ELSE StrnEq(a, b, i + 1, n)

\* a faulty comparison, of one character less
SatEqShort(a, b) == StrnEq(a, b, 1, SAT_ID_CHARS - 1)

\* SatelliteId::operator==
SatEq(a, b) == StrnEq(a, b, 1, SAT_ID_CHARS)

\* SatelliteId::operator!=
SatNe(a, b) == ~SatEq(a, b)

G01 == <<"G", "0", "1">>
G02 == <<"G", "0", "2">>
NoSat == <<NUL, NUL, NUL>>

----------------------------------------------------------------------------
(* Sp3Flag: bits_ as the set of the events that are on *)

FlagSet(f, e) == f \cup {e}

\* Sp3Flag::set(Sp3FlagWrapper): bits_ = wf.bits_
FlagSetWrapper(f, w) == w

FlagClear(f, e) == f \ {e}

FlagReset(f) == {}

set_defaults(f) ==
  FlagSetWrapper(FlagReset(f),
                 {"bad_abscent_position", "bad_abscent_clock",
                  "bad_abscent_velocity", "bad_abscent_clock_rate"})

is_set(f, e) == e \in f

----------------------------------------------------------------------------
(* Program constants and values of a default-constructed block *)

SP3_MISSING_CLK_VALUE == 999999

\* dso::datetime<nanoseconds>::min()
DatetimeMin == -1000000000

\* an uninitialised double of Sp3DataBlock::state / state_sdev
Indeterminate == -1

\* the floating point bases of the header (integers here, so that powers are)
fpb_pos == 2
fpb_clk == 3

RECURSIVE Pow(_, _)
Pow(b, n) == IF n <= 0 THEN 1 ELSE b * Pow(b, n - 1)

NewBlock ==
  [t |-> DatetimeMin,
   state |-> [i \in 1..8 |-> Indeterminate],
   sdev |-> [i \in 1..8 |-> Indeterminate],
   flag |-> {}]

----------------------------------------------------------------------------
(* Lines of the data section *)

Blank == <<>>
NoSdev == <<Blank, Blank, Blank, Blank>>

\* "*  yyyy mm dd hh mm ss.ssssssss": bad is the code resolve_epoch_line
\* returns for a malformed date field (0 when all fields resolve)
EpochLine(t) ==
  [kind |-> "*", sat |-> NoSat, d |-> <<0, 0, 0, 0>>, s |-> NoSdev, ev |-> {},
   t |-> t, bad |-> 0, long |-> FALSE]

\* an epoch header followed by more than 126 characters before its newline
LongEpochLine(t) == [EpochLine(t) EXCEPT !.long = TRUE]

\* "PG01 x y z clk [exponents] [event markers]", 80 columns wide
PLine(sat, d, s, ev) ==
  [kind |-> "P", sat |-> sat, d |-> d, s |-> s, ev |-> ev,
   t |-> 0, bad |-> 0, long |-> FALSE]

\* "VG01 vx vy vz clk-rate [exponents]", 80 columns wide
VLine(sat, d, s) ==
  [kind |-> "V", sat |-> sat, d |-> d, s |-> s, ev |-> {},
   t |-> 0, bad |-> 0, long |-> FALSE]

OtherLine(kind) ==
  [kind |-> kind, sat |-> NoSat, d |-> <<0, 0, 0, 0>>, s |-> NoSdev, ev |-> {},
   t |-> 0, bad |-> 0, long |-> FALSE]

EOFLine == OtherLine("EOF")
EPLine == OtherLine("EP")
EVLine == OtherLine("EV")
JunkLine == OtherLine("X")

\* what getline leaves in the buffer when it extracts nothing: line[0] = '\0'
EmptyLine == OtherLine("")

\* the first character of a line
FirstChar(l) ==
  CASE l.kind = "*" -> "*"
    [] l.kind = "P" -> "P"
    [] l.kind = "V" -> "V"
    [] l.kind \in {"EOF", "EP", "EV"} -> "E"
    [] OTHER -> "X"

----------------------------------------------------------------------------
(* std::ifstream as the reader uses it *)

EOFChar == "eof"

good(s) == ~s.eof /\ ~s.fail

\* istream::peek(): [c, s]
peek(f, s) ==
  IF ~good(s) THEN [c |-> EOFChar, s |-> [s EXCEPT !.fail = TRUE]]
  ELSE IF s.pos > Len(f) THEN [c |-> EOFChar, s |-> [s EXCEPT !.eof = TRUE]]
  ELSE [c |-> FirstChar(f[s.pos]), s |-> s]

\* istream::getline(line, MAX_RECORD_CHARS): [line, s]
getline(f, s) ==
  IF ~good(s) THEN [line |-> EmptyLine, s |-> [s EXCEPT !.fail = TRUE]]
  ELSE IF s.pos > Len(f)
    THEN [line |-> EmptyLine, s |-> [s EXCEPT !.eof = TRUE, !.fail = TRUE]]
  ELSE IF f[s.pos].long
    THEN [line |-> f[s.pos], s |-> [s EXCEPT !.mid = TRUE, !.fail = TRUE]]
  ELSE [line |-> f[s.pos], s |-> [s EXCEPT !.pos = s.pos + 1]]

\* istream::seekg(pos): clears eofbit, then seeks unless fail()
seekg(s, p) ==
  IF s.fail THEN [s EXCEPT !.eof = FALSE]
  ELSE [s EXCEPT !.eof = FALSE, !.pos = p.pos, !.mid = p.mid]

\* istream::clear()
clear(s) == [s EXCEPT !.eof = FALSE, !.fail = FALSE]

\* __end_of_head: where the data section starts
end_of_head == [pos |-> 1, mid |-> FALSE]

----------------------------------------------------------------------------
(* The record parsers of Sp3c *)

\* resolve_epoch_line(t): [rc, s, t]
resolve_epoch_line(f, s, t) ==
  LET g == getline(f, s) IN
  IF g.line.kind # "*" THEN [rc |-> 2, s |-> g.s, t |-> t]
  ELSE IF g.line.bad # 0 THEN [rc |-> g.line.bad, s |-> g.s, t |-> t]
  ELSE [rc |-> 0, s |-> g.s, t |-> g.line.t]

\* the std. deviation columns 61-72 of a P or V line: [rc, sdev, pos, clk]
\* (off is 0 for a P line, 4 for a V line)
StdDevs(l, sdev, off) ==
  LET zero(i) == l.s[i] = <<0>>
      firstBad == IF \E i \in 1..4 : zero(i)
                  THEN CHOOSE i \in 1..4 : zero(i) /\ \A j \in 1..(i - 1) : ~zero(j)
                  ELSE 5
      base(i) == IF i = 4 THEN fpb_clk ELSE fpb_pos
  IN [rc |-> IF firstBad <= 4 THEN 6 ELSE 0,
      sdev |-> [j \in 1..8 |->
                  IF /\ j - off \in 1..4
                     /\ j - off < firstBad
                     /\ l.s[j - off] # Blank
                  THEN Pow(base(j - off), l.s[j - off][1])
                  ELSE sdev[j]],
      pos |-> firstBad > 3 /\ \A i \in 1..3 : l.s[i] # Blank,
      clk |-> firstBad > 4 /\ l.s[4] # Blank]

\* what *wsat is once sat.id has been overwritten: wsat is either nullptr, a
\* pointer to the object the reference sat is bound to, or to another object
Deref(wsat, sat) == IF wsat.ptr = "sat" THEN sat ELSE wsat.id

\* a faulty get_next_position, which also takes a clock of exactly zero for
\* an absent clock
get_next_position_zero_clock(f, s, b, sat, wsat) ==
  LET g == getline(f, s)
      l == g.line
      sat1 == l.sat
      sd == StdDevs(l, b.sdev, 0)
      st1 == [i \in 1..8 |-> IF i \in 1..4 THEN l.d[i] ELSE b.state[i]]
      f1 == IF l.d[1] = 0 \/ l.d[2] = 0 \/ l.d[3] = 0
            THEN FlagSet(b.flag, "bad_abscent_position")
            ELSE FlagClear(b.flag, "bad_abscent_position")
      f2 == IF l.d[4] = 0 \/ l.d[4] >= SP3_MISSING_CLK_VALUE
            THEN FlagSet(f1, "bad_abscent_clock")
            ELSE FlagClear(f1, "bad_abscent_clock")
      f3 == IF sd.pos THEN FlagSet(f2, "has_pos_stddev") ELSE f2
      f4 == IF sd.clk THEN FlagSet(f3, "has_clk_stddev") ELSE f3
      f5 == f4 \cup l.ev
  IN
  IF l.kind # "P" THEN [rc |-> 1, s |-> g.s, b |-> b, sat |-> sat]
  ELSE IF wsat.ptr # "null" /\ SatNe(Deref(wsat, sat1), sat1)
    THEN [rc |-> 0, s |-> g.s, sat |-> sat1,
          b |-> [b EXCEPT !.flag = FlagSetWrapper(b.flag,
                    {"bad_abscent_position", "bad_abscent_clock"})]]
  ELSE IF l.bad # 0 THEN [rc |-> 1 + l.bad, s |-> g.s, b |-> b, sat |-> sat1]
  ELSE IF sd.rc # 0
    THEN [rc |-> sd.rc, s |-> g.s, sat |-> sat1,
          b |-> [b EXCEPT !.state = st1, !.sdev = sd.sdev,
                          !.flag = IF sd.pos THEN f3 ELSE f2]]
  ELSE [rc |-> 0, s |-> g.s, sat |-> sat1,
        b |-> [b EXCEPT !.state = st1, !.sdev = sd.sdev, !.flag = f5]]

\* get_next_position(sat, xkm, ykm, zkm, clk, xstdv, ystdv, zstdv, cstdv, flag,
\*                   wsat): [rc, s, b, sat]
get_next_position(f, s, b, sat, wsat) ==
  LET g == getline(f, s)
      l == g.line
      sat1 == l.sat
      sd == StdDevs(l, b.sdev, 0)
      st1 == [i \in 1..8 |-> IF i \in 1..4 THEN l.d[i] ELSE b.state[i]]
      f1 == IF l.d[1] = 0 \/ l.d[2] = 0 \/ l.d[3] = 0
            THEN FlagSet(b.flag, "bad_abscent_position")
            ELSE FlagClear(b.flag, "bad_abscent_position")
      f2 == IF l.d[4] >= SP3_MISSING_CLK_VALUE
            THEN FlagSet(f1, "bad_abscent_clock")
            ELSE FlagClear(f1, "bad_abscent_clock")
      f3 == IF sd.pos THEN FlagSet(f2, "has_pos_stddev") ELSE f2
      f4 == IF sd.clk THEN FlagSet(f3, "has_clk_stddev") ELSE f3
      f5 == f4 \cup l.ev
  IN
  IF l.kind # "P" THEN [rc |-> 1, s |-> g.s, b |-> b, sat |-> sat]
  ELSE IF wsat.ptr # "null" /\ SatNe(Deref(wsat, sat1), sat1)
    THEN [rc |-> 0, s |-> g.s, sat |-> sat1,
          b |-> [b EXCEPT !.flag = FlagSetWrapper(b.flag,
                    {"bad_abscent_position", "bad_abscent_clock"})]]
  ELSE IF l.bad # 0 THEN [rc |-> 1 + l.bad, s |-> g.s, b |-> b, sat |-> sat1]
  ELSE IF sd.rc # 0
    THEN [rc |-> sd.rc, s |-> g.s, sat |-> sat1,
          b |-> [b EXCEPT !.state = st1, !.sdev = sd.sdev,
                          !.flag = IF sd.pos THEN f3 ELSE f2]]
  ELSE [rc |-> 0, s |-> g.s, sat |-> sat1,
        b |-> [b EXCEPT !.state = st1, !.sdev = sd.sdev, !.flag = f5]]

\* get_next_velocity(sat, xv, yv, zv, cv, xstdv, ystdv, zstdv, cstdv, flag,
\*                   wsat): [rc, s, b, sat]
get_next_velocity(f, s, b, sat, wsat) ==
  LET g == getline(f, s)
      l == g.line
      sat1 == l.sat
      sd == StdDevs(l, b.sdev, 4)
      st1 == [i \in 1..8 |-> IF i \in 5..8 THEN l.d[i - 4] ELSE b.state[i]]
      f1 == IF l.d[1] = 0 \/ (l.d[2] = 0 \/ l.d[3] = 0)
            THEN FlagSet(b.flag, "bad_abscent_velocity")
            ELSE FlagClear(b.flag, "bad_abscent_velocity")
      f2 == IF l.d[4] >= SP3_MISSING_CLK_VALUE
            THEN FlagSet(f1, "bad_abscent_clock_rate")
            ELSE FlagClear(f1, "bad_abscent_clock_rate")
      f3 == IF sd.pos THEN FlagSet(f2, "has_vel_stddev") ELSE f2
      f4 == IF sd.clk THEN FlagSet(f3, "has_clk_rate_stdev") ELSE f3
  IN
  IF l.kind # "V" THEN [rc |-> 1, s |-> g.s, b |-> b, sat |-> sat]
  ELSE IF wsat.ptr # "null" /\ SatNe(Deref(wsat, sat1), sat1)
    THEN [rc |-> 0, s |-> g.s, sat |-> sat1,
          b |-> [b EXCEPT !.flag = FlagSetWrapper(b.flag,
                    {"bad_abscent_velocity", "bad_abscent_clock_rate"})]]
  ELSE IF l.bad # 0 THEN [rc |-> 1 + l.bad, s |-> g.s, b |-> b, sat |-> sat1]
  ELSE IF sd.rc # 0
    THEN [rc |-> sd.rc, s |-> g.s, sat |-> sat1,
          b |-> [b EXCEPT !.state = st1, !.sdev = sd.sdev,
                          !.flag = IF sd.pos THEN f3 ELSE f2]]
  ELSE [rc |-> 0, s |-> g.s, sat |-> sat1,
        b |-> [b EXCEPT !.state = st1, !.sdev = sd.sdev, !.flag = f4]]

\* the do-while loop of get_next_data_block: [rc, s, b]; satid is the local
\* copy of the requested id, passed both as sat and as wsat to the parsers
RECURSIVE ReadRecords(_, _, _, _, _)

\* the loop after a P or V line, r being what its parser returned and base
\* what is added to its error code (20 for a P line, 30 for a V line)
AfterRecord(f, r, base) ==
  IF r.rc # 0 THEN [rc |-> r.rc + base, s |-> r.s, b |-> r.b]
  ELSE ReadRecords(f, r.s, r.b, r.sat, r.rc)

ReadRecords(f, s, b, satid, status) ==
  LET p == peek(f, s) IN
  IF p.c = "*" THEN [rc |-> status, s |-> p.s, b |-> b]
  ELSE IF p.c = "P" THEN
    AfterRecord(f, get_next_position(f, p.s, b, satid,
                                     [ptr |-> "sat", id |-> satid]), 20)
  ELSE IF p.c = "V" THEN
    AfterRecord(f, get_next_velocity(f, p.s, b, satid,
                                     [ptr |-> "sat", id |-> satid]), 30)
  ELSE
    LET g == getline(f, p.s) IN
    IF g.line.kind = "EOF" THEN [rc |-> -1, s |-> g.s, b |-> b]
    ELSE IF g.line.kind \in {"EP", "EV"} THEN ReadRecords(f, g.s, b, satid, status)
    ELSE [rc |-> 150, s |-> g.s, b |-> b]

\* a faulty get_next_data_block, which returns once the epoch header is
\* resolved, leaving the records of the epoch unread
get_next_data_block_header_only(f, s, b, satid) ==
  IF ~good(s) THEN [rc |-> 1, s |-> s, b |-> b]
  ELSE
    LET p == peek(f, s) IN
    IF p.c = "*" THEN
      LET e == resolve_epoch_line(f, p.s, b.t) IN
      IF e.rc # 0 THEN [rc |-> e.rc + 10, s |-> e.s, b |-> b]
      ELSE [rc |-> 0, s |-> e.s,
            b |-> [b EXCEPT !.t = e.t, !.flag = set_defaults(b.flag)]]
    ELSE
      LET g == getline(f, p.s) IN
      IF g.line.kind = "EOF" THEN [rc |-> -1, s |-> g.s, b |-> b]
      ELSE [rc |-> 100, s |-> g.s, b |-> b]

\* Sp3c::get_next_data_block(satid, block): [rc, s, b]
get_next_data_block(f, s, b, satid) ==
  IF ~good(s) THEN [rc |-> 1, s |-> s, b |-> b]
  ELSE
    LET p == peek(f, s) IN
    IF p.c = "*" THEN
      LET e == resolve_epoch_line(f, p.s, b.t) IN
      IF e.rc # 0 THEN [rc |-> e.rc + 10, s |-> e.s, b |-> b]
      ELSE ReadRecords(f, e.s,
                       [b EXCEPT !.t = e.t, !.flag = set_defaults(b.flag)],
                       satid, e.rc)
    ELSE
      LET g == getline(f, p.s) IN
      IF g.line.kind = "EOF" THEN [rc |-> -1, s |-> g.s, b |-> b]
      ELSE [rc |-> 100, s |-> g.s, b |-> b]

\* Sp3c::peak_next_data_block(t): [rc, s, t]
peak_next_data_block(f, s, t) ==
  IF ~good(s) THEN [rc |-> 1, s |-> s, t |-> t]
  ELSE
    LET pos == [pos |-> s.pos, mid |-> s.mid]
        p == peek(f, s)
    IN
    IF p.c = "*" THEN
      LET e == resolve_epoch_line(f, p.s, t) IN
      [rc |-> IF e.rc # 0 THEN e.rc + 10 ELSE 0, s |-> seekg(e.s, pos), t |-> e.t]
    ELSE
      LET g == getline(f, p.s) IN
      IF g.line.kind = "EOF"
      THEN [rc |-> -1, s |-> seekg(clear(g.s), pos), t |-> t]
      ELSE [rc |-> 100, s |-> seekg(g.s, pos), t |-> t]

\* Sp3c::rewind()
rewind(s) == seekg(s, end_of_head)

----------------------------------------------------------------------------
(* The members of Sp3c that read_header fills, and has_sv *)

\* the nominal interval of the epochs, in nanoseconds (100 ms)
Interval == 100000000

\* the members of a file already open, with num_epochs n and sat_vec svs; the
\* times of its data section are counted in nanoseconds from start_epoch
HeaderOf(n, svs) ==
  [num_epochs |-> n, sat_vec |-> svs, interval |-> Interval, start_epoch |-> 0]

\* Sp3c::has_sv(satid): std::find_if over sat_vec__ with SatelliteId::operator==
has_sv(sat_vec, satid) == \E i \in 1..Len(sat_vec) : SatEq(sat_vec[i], satid)

----------------------------------------------------------------------------
(* The header and read_header.                                              *)
(* A number of seconds read with strtod is [s, f]: whole seconds and the    *)
(* fraction in units of half a nanosecond.  A fraction of a day is [q, e]:   *)
(* quarters of a day and an excess in units of 1e-13 day (the last decimal   *)
(* of the field).  A datetime is [mjd, sec, nsec].                           *)

MAX_HEADER_LINES == 1000

\* the satellite ids of a line are read at columns 9, 12, .., 57
IdsPerLine == 17

HalfNanosPerSec == 2000000000

Seconds(s, f) == [s |-> s, f |-> f]

DayFraction(q, e) == [q |-> q, e |-> e]

\* static_cast<long>(sec * nanoseconds::sec_factor<double>()), for sec < 2
to_nanoseconds(sec) == sec.s * 1000000000 + (sec.f \div 2)

\* dso::datetime(year, month, day_of_month, hours, minutes, nanoseconds):
\* the Modified Julian Day of a date of 1901..2099
cal2mjd(year, month, dom) ==
  367 * year - ((7 * (year + ((month + 9) \div 12))) \div 4)
  + ((275 * month) \div 9) + dom + 1721014 - 2400001

datetime(year, month, dom, hour, minute, sec) ==
  [mjd |-> cal2mjd(year, month, dom),
   sec |-> hour * 3600 + minute * 60 + sec.s,
   nsec |-> sec.f \div 2]

\* datetime::gps_wsow(sw): the GPS week and the seconds of week
gps_week(t) == (t.mjd - 44244) \div 7
gps_sow(t) == Seconds(((t.mjd - 44244) % 7) * 86400 + t.sec, 2 * t.nsec)

\* std::abs(a - b) > 1e-9, for two numbers of seconds
ExceedsNanosecond(a, b) ==
  LET ds == a.s - b.s
      df == a.f - b.f
  IN IF ds >= 2 \/ ds <= -2 THEN TRUE
     ELSE IF ds = 1 THEN df > 2 - HalfNanosPerSec
     ELSE IF ds = -1 THEN df < HalfNanosPerSec - 2
     ELSE df > 2 \/ df < -2

\* a faulty check, which compares the weeks only
start_epoch_mismatch_week_only(start_epoch, gwk, sec) ==
  gps_week(start_epoch) # gwk

\* validate start epoch (#1): TRUE when the check of line 2 fails
start_epoch_mismatch(start_epoch, gwk, sec) ==
  \/ gps_week(start_epoch) # gwk
  \/ ExceedsNanosecond(gps_sow(start_epoch), sec)

\* the double nearest to mjd + fraction, for 32768 <= mjd < 65536, counted in
\* units of 2^-37 day from mjd + q / 4: the excess e * 1e-13 rounds to the
\* nearest multiple of 2^-37 (1e-13 * 2^37 = 0.0137439)
fmjd_sum(mjd, frac) ==
  [quarters |-> 4 * mjd + frac.q,
   ulps |-> (frac.e * 137439 + 5000000) \div 10000000]

\* datetime::fmjd(), for a time of day that is a whole number of quarters
fmjd(t) == [quarters |-> 4 * t.mjd + (t.sec \div 21600), ulps |-> 0]

\* a header line: its first two characters, the number at its column 3 (for
\* the first "+ " line), the satellite ids at its columns 9.. (for a "+ "
\* line), the two floating point bases (for a "%f" line)
HeaderLine(c1, c2, ids, fpos, fclk) ==
  [kind |-> <<c1, c2>>, num_sats |-> 0, ids |-> ids, fpos |-> fpos,
   fclk |-> fclk]

\* what getline gives past the header: the first epoch header of the data
DataLine == HeaderLine("*", " ", <<>>, 0, 0)

LineAt(lines, i) == IF i <= Len(lines) THEN lines[i] ELSE DataLine

\* three characters past the end of the line: what an earlier line left in
\* the buffer, after the zero byte that ends the line
StaleId == <<"?", "?", "?">>
EndOfLineId == <<NUL, "?", "?">>

\* SatelliteId(line + cidx) for the j-th id of the line (j from 0); a line
\* that lists fewer ids ends after the last one
IdAt(line, j) ==
  IF j < Len(line.ids) THEN line.ids[j + 1]
  ELSE IF j = Len(line.ids) THEN EndOfLineId
  ELSE StaleId

\* the loop over csat: the ids of sat_vec__
ReadSatIds(lines, first, num_sats) ==
  [csat \in 1..num_sats |->
     IdAt(LineAt(lines, first + ((csat - 1) \div IdsPerLine)),
          (csat - 1) % IdsPerLine)]

Max(a, b) == IF a > b THEN a ELSE b

\* the loop over the "++" lines, the last line read being lines[i], with
\* dummy_it iterations counted: [i, dummy_it], i the last line read
RECURSIVE SkipAccuracyLines(_, _, _)
SkipAccuracyLines(lines, i, dummy_it) ==
  IF dummy_it + 1 < MAX_HEADER_LINES /\ LineAt(lines, i).kind = <<"+", "+">>
  THEN IF LineAt(lines, i + 2).kind[1] # "+"
       THEN [i |-> i + 1, dummy_it |-> dummy_it + 1]
       ELSE SkipAccuracyLines(lines, i + 1, dummy_it + 1)
  ELSE [i |-> i, dummy_it |-> dummy_it + 1]

\* the loop over the comment lines, the next line to read being lines[i]:
\* [rc, i]
RECURSIVE SkipComments(_, _, _)
SkipComments(lines, i, dummy_it) ==
  IF LineAt(lines, i).kind[1] # "/" THEN [rc |-> 0, i |-> i]
  ELSE IF LineAt(lines, i).kind[2] # "*" THEN [rc |-> 80, i |-> i + 1]
  ELSE IF dummy_it + 1 > MAX_HEADER_LINES THEN [rc |-> 81, i |-> i + 1]
  ELSE SkipComments(lines, i + 1, dummy_it + 1)

\* the header lines from the third on (error codes 30 and above): [rc, h]
ReadHeaderLines(lines, h) ==
  LET num_sats == LineAt(lines, 1).num_sats
      wraps == num_sats \div IdsPerLine
      \* the line read after the satellite id lines
      acc == 1 + Max(wraps, 5) + 1
      sk == SkipAccuracyLines(lines, acc, 0)
      c1 == sk.i + 1
      pf == LineAt(lines, c1 + 2)
      cm == SkipComments(lines, c1 + 6, sk.dummy_it)
      h1 == [h EXCEPT !.num_sats = num_sats,
                      !.sat_vec = ReadSatIds(lines, 1, num_sats)]
      h2 == [h1 EXCEPT !.fpb_pos = pf.fpos, !.fpb_clk = pf.fclk]
  IN
  IF LineAt(lines, 1).kind # <<"+", " ">> THEN [rc |-> 30, h |-> h]
  ELSE IF num_sats = 0 THEN [rc |-> 31, h |-> [h EXCEPT !.num_sats = 0]]
  ELSE IF LineAt(lines, acc).kind # <<"+", "+">> THEN [rc |-> 40, h |-> h1]
  ELSE IF sk.dummy_it >= MAX_HEADER_LINES THEN [rc |-> 41, h |-> h1]
  ELSE IF LineAt(lines, c1).kind # <<"%", "c">> THEN [rc |-> 50, h |-> h1]
  ELSE IF LineAt(lines, c1 + 1).kind # <<"%", "c">> THEN [rc |-> 51, h |-> h1]
  ELSE IF pf.kind # <<"%", "f">> THEN [rc |-> 60, h |-> h1]
  ELSE IF pf.fpos = 0 \/ pf.fclk = 0 THEN [rc |-> 61, h |-> h2]
  ELSE IF LineAt(lines, c1 + 3).kind # <<"%", "f">> THEN [rc |-> 65, h |-> h2]
  ELSE IF LineAt(lines, c1 + 4).kind # <<"%", "i">> THEN [rc |-> 70, h |-> h2]
  ELSE IF LineAt(lines, c1 + 5).kind # <<"%", "i">> THEN [rc |-> 70, h |-> h2]
  ELSE [rc |-> cm.rc, h |-> h2]

\* the members before read_header
NoHeader ==
  [version |-> "?", num_epochs |-> 0, num_sats |-> 0, sat_vec |-> <<>>,
   interval |-> 0, start_epoch |-> [mjd |-> 0, sec |-> 0, nsec |-> 0],
   fpb_pos |-> 0, fpb_clk |-> 0]

\* Sp3c::read_header(): [rc, h]
read_header(hd) ==
  LET l1 == hd.l1
      l2 == hd.l2
      start == datetime(l1.year, l1.month, l1.dom, l1.hour, l1.minute, l1.sec)
      h1 == [NoHeader EXCEPT !.version = l1.kind[2]]
      h2 == [h1 EXCEPT !.num_epochs = l1.num_epochs]
      h3 == [h2 EXCEPT !.start_epoch = start]
      h4 == [h3 EXCEPT !.interval = to_nanoseconds(l2.interval)]
  IN
  IF l1.kind[1] # "#" THEN [rc |-> 10, h |-> NoHeader]
  ELSE IF l1.kind[2] \notin {"c", "d"} THEN [rc |-> 10, h |-> h1]
  ELSE IF l1.year = 0 THEN [rc |-> 11, h |-> h1]
  ELSE IF l1.month = 0 THEN [rc |-> 12, h |-> h1]
  ELSE IF l1.dom = 0 THEN [rc |-> 13, h |-> h1]
  ELSE IF l1.hour < 0 THEN [rc |-> 14, h |-> h1]
  ELSE IF l1.minute < 0 THEN [rc |-> 15, h |-> h1]
  ELSE IF l1.num_epochs = 0 THEN [rc |-> 16, h |-> h2]
  ELSE IF l2.kind # <<"#", "#">> THEN [rc |-> 20, h |-> h3]
  ELSE IF l2.gwk = 0 THEN [rc |-> 21, h |-> h3]
  ELSE IF start_epoch_mismatch(start, l2.gwk, l2.sow) THEN [rc |-> 22, h |-> h3]
  ELSE IF l2.mjd = 0 THEN [rc |-> 23, h |-> h4]
  ELSE IF fmjd_sum(l2.mjd, l2.frac) # fmjd(start) THEN [rc |-> 24, h |-> h4]
  ELSE ReadHeaderLines(hd.lines, h4)

----------------------------------------------------------------------------
(* SvInterpolator: construction *)

\* dso::cast_to<dso::milliseconds, dso::nanoseconds>
cast_to_nanoseconds(ms) == ms * 1000000

\* a faulty compute_workspace_size, which rounds the quotient up instead of
\* adding one to the truncated quotient
compute_workspace_size_ceil(max_millisec, interval) ==
  LET lr_intrvl == cast_to_nanoseconds(max_millisec)
      one_side_pts == (lr_intrvl + interval - 1) \div interval
  IN one_side_pts * 2 + 1

\* SvInterpolator::compute_workspace_size(); C++ division truncates, and the
\* operands are not negative here
compute_workspace_size(max_millisec, interval) ==
  LET lr_intrvl == cast_to_nanoseconds(max_millisec)
      one_side_pts == (lr_intrvl \div interval) + 1
  IN one_side_pts * 2 + 1

\* the while loop of feed_from_sp3, r being what get_next_data_block returned
\* for the coming iteration: [error, s, data]
RECURSIVE FeedLoop(_, _, _, _)
FeedLoop(f, svid, data, r) ==
  IF r.rc # 0 THEN [error |-> r.rc, s |-> r.s, data |-> data]
  ELSE FeedLoop(f, svid,
                IF ~(is_set(r.b.flag, "bad_abscent_position") /\
                     is_set(r.b.flag, "bad_abscent_clock"))
                THEN Append(data, r.b) ELSE data,
                get_next_data_block(f, r.s, r.b, svid))

\* feed_from_sp3 after its loop, l being what the loop returned
AfterFeedLoop(h, l) ==
  IF l.error > 0
    THEN [rc |-> 1, s |-> l.s, data |-> <<>>, num_dpts |-> 0, alloc |-> 0,
          overrun |-> Len(l.data) > h.num_epochs]
  ELSE [rc |-> 0, s |-> l.s, data |-> l.data, num_dpts |-> Len(l.data),
        alloc |-> h.num_epochs, overrun |-> Len(l.data) > h.num_epochs]

\* SvInterpolator::feed_from_sp3(): [rc, s, data, num_dpts, alloc, overrun];
\* alloc is the length of the array data points to (0: nullptr), overrun tells
\* that data[idx++] = block wrote past the num_epochs elements allocated
feed_from_sp3(f, s, h, svid) ==
  IF h.num_epochs = 0
    THEN [rc |-> 1, s |-> s, data |-> <<>>, num_dpts |-> 0, alloc |-> 0,
          overrun |-> FALSE]
  ELSE IF ~has_sv(h.sat_vec, svid)
    THEN [rc |-> 2, s |-> s, data |-> <<>>, num_dpts |-> 0, alloc |-> 0,
          overrun |-> FALSE]
  ELSE
    AfterFeedLoop(h, FeedLoop(f, svid, <<>>,
                     get_next_data_block(f, rewind(s), NewBlock, svid)))

\* no SvInterpolator (none constructed, or its constructor threw)
NoInterpolator ==
  [built |-> FALSE, svid |-> NoSat, num_dpts |-> 0, data |-> <<>>, alloc |-> 0,
   last_index |-> 0, max_millisec |-> 0, min_dpts_on_each_side |-> 0, wsz |-> 0]

\* nothing written to the output arguments yet
NoOutput == [pos |-> <<>>, erpos |-> <<>>, vel |-> <<>>, ervel |-> <<>>]

\* the constructor after feed_from_sp3, r being what feed_from_sp3 returned
AfterFeed(h, sid, max_allowed_millisec, min_dpts, r) ==
  IF r.rc # 0 THEN [rc |-> r.rc, s |-> r.s, overrun |-> r.overrun,
                    itp |-> NoInterpolator]
  ELSE [rc |-> 0, s |-> r.s, overrun |-> r.overrun,
        itp |-> [built |-> TRUE, svid |-> sid, num_dpts |-> r.num_dpts,
                 data |-> r.data, alloc |-> r.alloc, last_index |-> 0,
                 max_millisec |-> max_allowed_millisec,
                 min_dpts_on_each_side |-> min_dpts,
                 wsz |-> compute_workspace_size(max_allowed_millisec,
                                                h.interval)]]

\* SvInterpolator::SvInterpolator(sid, sp3obj, max_allowed_millisec), with the
\* value min_dpts_on_each_side is initialised to: [rc, s, itp]
SvInterpolator(f, s, h, sid, max_allowed_millisec, min_dpts) ==
  AfterFeed(h, sid, max_allowed_millisec, min_dpts, feed_from_sp3(f, s, h, sid))

----------------------------------------------------------------------------
(* Real numbers: a double is modelled by the exact rational <<n, d>>, d > 0, *)
(* in lowest terms (rounding is left out)                                    *)

Abs(i) == IF i < 0 THEN -i ELSE i

RECURSIVE GCD(_, _)
GCD(a, b) == IF b = 0 THEN a ELSE GCD(b, a % b)

Rat(n, d) ==
  LET g == GCD(Abs(n), Abs(d))
      sg == IF d < 0 THEN -1 ELSE 1
  IN <<sg * (n \div g), sg * (d \div g)>>

RInt(i) == <<i, 1>>
RAdd(a, b) == Rat(a[1] * b[2] + b[1] * a[2], a[2] * b[2])
RSub(a, b) == Rat(a[1] * b[2] - b[1] * a[2], a[2] * b[2])
RMul(a, b) == Rat(a[1] * b[1], a[2] * b[2])
RDiv(a, b) == Rat(a[1] * b[2], a[2] * b[1])
RLt(a, b) == a[1] * b[2] < b[1] * a[2]
RAbs(a) == <<Abs(a[1]), a[2]>>
RZero == RInt(0)

----------------------------------------------------------------------------
(* Neville's algorithm; arrays are functions on 0..n-1 *)

\* the index of the table entry closest to x (the first of the closest)
RECURSIVE Closest(_, _, _, _, _)
Closest(x, xpts, mm, i, ns) ==
  IF i >= mm THEN ns
  ELSE Closest(x, xpts, mm, i + 1,
               IF RLt(RAbs(RSub(x, xpts[i])), RAbs(RSub(x, xpts[ns])))
               THEN i ELSE ns)

\* the loop over the columns m of the tableau: [rc, y, dy]
RECURSIVE NevilleColumns(_, _, _, _, _, _, _, _, _)
NevilleColumns(x, xpts, c, d, ns, y, dy, m, mm) ==
  IF m >= mm THEN [rc |-> 0, y |-> y, dy |-> dy]
  ELSE IF \E i \in 0..(mm - m - 1) : RSub(xpts[i], xpts[i + m]) = RZero
    THEN [rc |-> 5, y |-> y, dy |-> dy]
  ELSE
    LET ho(i) == RSub(xpts[i], x)
        hp(i) == RSub(xpts[i + m], x)
        den(i) == RDiv(RSub(c[i + 1], d[i]), RSub(ho(i), hp(i)))
        d1 == [i \in DOMAIN d |-> IF i < mm - m THEN RMul(hp(i), den(i)) ELSE d[i]]
        c1 == [i \in DOMAIN c |-> IF i < mm - m THEN RMul(ho(i), den(i)) ELSE c[i]]
        up == 2 * (ns + 1) < mm - m
        dy1 == IF up THEN c1[ns + 1] ELSE d1[ns]
    IN NevilleColumns(x, xpts, c1, d1, IF up THEN ns ELSE ns - 1,
                      RAdd(y, dy1), dy1, m + 1, mm)

\* a faulty neville_interpolation, which starts from the first table entry
\* instead of the closest one
neville_interpolation_from_first(x, y, dy, xx, yy, array_size, mm, from_index) ==
  IF from_index + mm > array_size THEN [rc |-> 1, y |-> y, dy |-> dy]
  ELSE
    LET xpts == [i \in 0..(mm - 1) |-> xx[from_index + i]]
        ypts == [i \in 0..(mm - 1) |-> yy[from_index + i]]
        ns == Closest(x, xpts, mm, 0, 0)
    IN NevilleColumns(x, xpts, ypts, ypts, ns - 1, ypts[0], dy, 1, mm)

\* neville_interpolation(x, y, dy, xx, yy, array_size, mm, from_index):
\* [rc, y, dy]; y and dy come in with the values the caller's variables hold
neville_interpolation(x, y, dy, xx, yy, array_size, mm, from_index) ==
  IF from_index + mm > array_size THEN [rc |-> 1, y |-> y, dy |-> dy]
  ELSE
    LET xpts == [i \in 0..(mm - 1) |-> xx[from_index + i]]
        ypts == [i \in 0..(mm - 1) |-> yy[from_index + i]]
        ns == Closest(x, xpts, mm, 0, 0)
    IN NevilleColumns(x, xpts, ypts, ypts, ns - 1, ypts[ns], dy, 1, mm)

\* where the six tableau arrays of neville_interpolation3 start in workspace
cx(array_size) == 0
dx(array_size) == array_size
cy(array_size) == 2 * array_size
dy(array_size) == 3 * array_size
cz(array_size) == 3 * array_size
dz(array_size) == 4 * array_size

\* the update of row i of one component, whose C and D arrays start at c and
\* d of the workspace w: the workspace after it
Neville3Update(w, c, d, i, ho, hp, den) ==
  LET q == RDiv(RSub(w[c + i + 1], w[d + i]), den)
  IN [w EXCEPT ![d + i] = RMul(hp, q), ![c + i] = RMul(ho, q)]

\* the inner loop over i of column m, on the workspace w: [ok, w]
RECURSIVE Neville3Rows(_, _, _, _, _, _, _)
Neville3Rows(w, t, tpts, a, m, mm, i) ==
  IF i >= mm - m THEN [ok |-> TRUE, w |-> w]
  ELSE
    LET ho == RSub(tpts[i], t)
        hp == RSub(tpts[i + m], t)
        den == RSub(ho, hp)
    IN
    IF den = RZero THEN [ok |-> FALSE, w |-> w]
    ELSE
      Neville3Rows(
        Neville3Update(
          Neville3Update(
            Neville3Update(w, cx(a), dx(a), i, ho, hp, den),
            cy(a), dy(a), i, ho, hp, den),
          cz(a), dz(a), i, ho, hp, den),
        t, tpts, a, m, mm, i + 1)

\* the loop over the columns m: [rc, estimates, destimates]; ns is <<nsx, nsy,
\* nsz>>, and every correction is read from cx / dx
RECURSIVE Neville3Columns(_, _, _, _, _, _, _, _, _)

\* column m after its inner loop, r being what the inner loop returned
AfterRows(r, t, tpts, a, ns, estimates, destimates, m, mm) ==
  IF ~r.ok THEN [rc |-> 5, estimates |-> estimates, destimates |-> destimates]
  ELSE
    LET up(j) == 2 * (ns[j] + 1) < mm - m
        de == [j \in 1..3 |-> IF up(j) THEN r.w[cx(a) + ns[j] + 1]
                               ELSE r.w[dx(a) + ns[j]]]
    IN Neville3Columns(r.w, t, tpts, a,
                       [j \in 1..3 |-> IF up(j) THEN ns[j] ELSE ns[j] - 1],
                       [j \in 1..3 |-> RAdd(estimates[j], de[j])], de,
                       m + 1, mm)

Neville3Columns(w, t, tpts, a, ns, estimates, destimates, m, mm) ==
  IF m >= mm THEN [rc |-> 0, estimates |-> estimates, destimates |-> destimates]
  ELSE AfterRows(Neville3Rows(w, t, tpts, a, m, mm, 0), t, tpts, a, ns,
                 estimates, destimates, m, mm)

\* neville_interpolation3(t, estimates, destimates, tt, xx, yy, zz, array_size,
\* mm, from_index, workspace): [rc, estimates, destimates]
neville_interpolation3(t, estimates, destimates, tt, xx, yy, zz, array_size, mm, from_index, workspace) ==
  IF from_index + mm > array_size
    THEN [rc |-> 1, estimates |-> estimates, destimates |-> destimates]
  ELSE
    LET a == array_size
        tpts == [i \in 0..(mm - 1) |-> tt[from_index + i]]
        xpts == [i \in 0..(mm - 1) |-> xx[from_index + i]]
        ypts == [i \in 0..(mm - 1) |-> yy[from_index + i]]
        zpts == [i \in 0..(mm - 1) |-> zz[from_index + i]]
        nsx == Closest(t, tpts, mm, 0, 0)
        in(j, base) == j >= base /\ j < base + mm
        \* cx, dx, then cy, dy, then cz, dz are seeded: the later write stays
        w0 == [j \in DOMAIN workspace |->
                 IF in(j, dz(a)) THEN zpts[j - dz(a)]
                 ELSE IF in(j, cz(a)) THEN zpts[j - cz(a)]
                 ELSE IF in(j, dy(a)) THEN ypts[j - dy(a)]
                 ELSE IF in(j, cy(a)) THEN ypts[j - cy(a)]
                 ELSE IF in(j, dx(a)) THEN xpts[j - dx(a)]
                 ELSE IF in(j, cx(a)) THEN xpts[j - cx(a)]
                 ELSE workspace[j]]
    IN Neville3Columns(w0, t, tpts, a, <<nsx - 1, nsx - 1, nsx - 1>>,
                       <<xpts[nsx], ypts[nsx], zpts[nsx]>>, destimates, 1, mm)

----------------------------------------------------------------------------
(* SvInterpolator: index_hunt and interpolate_at *)

\* data[i].t for the 0-based index i.  The array holds alloc elements, of
\* which the first num_dpts are filled and the rest are default constructed;
\* an element past the array is whatever lies there: u[i - alloc]
TimeAt(I, i, u) ==
  IF i < I.num_dpts THEN I.data[i + 1].t
  ELSE IF i < I.alloc THEN DatetimeMin
  ELSE u[i - I.alloc]

\* std::lower_bound(data, data + num_dpts, t, block.t < tt) - data
lower_bound(I, t) ==
  LET S == { i \in 0..(I.num_dpts - 1) : ~(I.data[i + 1].t < t) } IN
  IF S = {} THEN I.num_dpts ELSE CHOOSE i \in S : \A j \in S : i <= j

\* SvInterpolator::index_hunt(t): the index returned
index_hunt(I, t, u) ==
  LET li == I.last_index IN
  IF TimeAt(I, li, u) <= t /\ li = I.num_dpts - 1 THEN li
  ELSE IF TimeAt(I, li, u) <= t /\ TimeAt(I, li + 1, u) > t THEN li
  ELSE IF /\ TimeAt(I, li, u) <= t
          /\ li + 2 < I.num_dpts - 1
          /\ TimeAt(I, li + 1, u) <= t /\ TimeAt(I, li + 2, u) > t
    THEN li + 1
  ELSE IF /\ TimeAt(I, li, u) <= t
          /\ ~(li + 2 < I.num_dpts - 1)
          /\ li + 2 = I.num_dpts
    THEN (IF TimeAt(I, li + 1, u) <= t THEN li + 1 ELSE li)
  ELSE lower_bound(I, t)

\* while (start > 0 && t - data[start].t < max_t) --start;
RECURSIVE StartOf(_, _, _, _, _)
StartOf(I, t, u, max_t, start) ==
  IF start > 0 /\ t - TimeAt(I, start, u) < max_t
  THEN StartOf(I, t, u, max_t, start - 1) ELSE start

\* while (stop < num_dpts - 1 && data[stop].t - t < max_t) ++stop;
RECURSIVE StopOf(_, _, _, _, _)
StopOf(I, t, u, max_t, stop) ==
  IF stop < I.num_dpts - 1 /\ TimeAt(I, stop, u) - t < max_t
  THEN StopOf(I, t, u, max_t, stop + 1) ELSE stop

\* t.diff<FractionalSeconds>(start_t).seconds()
FractionalSeconds(t, start_t) == Rat(t - start_t, 1000000000)

\* the loop that fills td, xd, yd, zd (at 0, wsz, 2 wsz, 3 wsz of the arena
\* txyz) with the times and state[c0 .. c0+2] of data[start .. start+size-1]
RECURSIVE FillArena(_, _, _, _, _, _, _, _)
FillArena(txyz, I, start_t, wsz, start, size, c0, i) ==
  IF i >= size THEN txyz
  ELSE
    LET b == I.data[start + i + 1]
        a1 == [txyz EXCEPT ![0 * wsz + i] = FractionalSeconds(b.t, start_t)]
        a2 == [a1 EXCEPT ![1 * wsz + i] = RInt(b.state[c0])]
        a3 == [a2 EXCEPT ![2 * wsz + i] = RInt(b.state[c0 + 1])]
        a4 == [a3 EXCEPT ![3 * wsz + i] = RInt(b.state[c0 + 2])]
    IN FillArena(a4, I, start_t, wsz, start, size, c0, i + 1)

\* one fill of the arena and one neville_interpolation3 on it
InterpolateComponents(I, h, t, start, size, c0, est, dest) ==
  LET wsz == compute_workspace_size(I.max_millisec, h.interval)
      \* the arena is 4 * wsz long; what is written past it lands past it
      cells == 0..((IF size > wsz THEN 3 * wsz + size ELSE 4 * wsz) - 1)
      txyz == FillArena([j \in cells |-> RZero], I, h.start_epoch, wsz,
                        start, size, c0, 0)
      wcells == 0..((IF 5 * size > 6 * wsz THEN 5 * size ELSE 6 * wsz) - 1)
  IN neville_interpolation3(FractionalSeconds(t, h.start_epoch), est, dest,
        [i \in 0..(size - 1) |-> txyz[0 * wsz + i]],
        [i \in 0..(size - 1) |-> txyz[1 * wsz + i]],
        [i \in 0..(size - 1) |-> txyz[2 * wsz + i]],
        [i \in 0..(size - 1) |-> txyz[3 * wsz + i]],
        size, size, 0, [j \in wcells |-> RZero])

\* a faulty interpolate_at, which rejects an index outside the data but
\* does not count the points of the window on either side
interpolate_at_unchecked(I, h, t, with_vel, u, o0) ==
  LET index == index_hunt(I, t, u)
      max_t == cast_to_nanoseconds(I.max_millisec)
      start == StartOf(I, t, u, max_t, index)
      stop == StopOf(I, t, u, max_t, index)
      size == stop - start + 1
      res(rc, o) ==
        [rc |-> rc, last_index |-> index, index |-> index, start |-> start,
         stop |-> stop, o |-> o, ub |-> FALSE]
  IN
  IF index < 0 \/ index > I.num_dpts - 1 THEN res(1, o0)
  ELSE
    LET p == InterpolateComponents(I, h, t, start, size, 1, o0.pos, o0.erpos)
    IN res(IF p.rc # 0 THEN 5 ELSE 0,
           [o0 EXCEPT !.pos = p.estimates, !.erpos = p.destimates])

\* what interpolate_at returns
Outcome(rc, index, start, stop, o, ub) ==
  [rc |-> rc, last_index |-> index, index |-> index, start |-> start,
   stop |-> stop, o |-> o, ub |-> ub]

\* interpolate_at after the velocity is interpolated, v being what
\* neville_interpolation3 returned
AfterVelocity(index, start, stop, o1, ub, v) ==
  Outcome(IF v.rc # 0 THEN 6 ELSE 0, index, start, stop,
          [o1 EXCEPT !.vel = v.estimates, !.ervel = v.destimates], ub)

\* interpolate_at after the position is interpolated into o1, with the error
\* code rc of neville_interpolation3
AfterPosition(I, h, t, with_vel, index, start, stop, size, o1, ub, rc) ==
  IF rc # 0 THEN Outcome(5, index, start, stop, o1, ub)
  ELSE IF ~with_vel THEN Outcome(0, index, start, stop, o1, ub)
  ELSE AfterVelocity(index, start, stop, o1, ub,
         InterpolateComponents(I, h, t, start, size, 5, o1.vel, o1.ervel))

\* interpolate_at with the position interpolated, p being what
\* neville_interpolation3 returned
WithPosition(I, h, t, with_vel, index, start, stop, size, o0, ub, p) ==
  AfterPosition(I, h, t, with_vel, index, start, stop, size,
                [o0 EXCEPT !.pos = p.estimates, !.erpos = p.destimates],
                ub, p.rc)

\* interpolate_at once the window start .. stop around index is known
InterpolateWindow(I, h, t, with_vel, o0, index, start, stop) ==
  IF index - start < I.min_dpts_on_each_side
    THEN Outcome(1, index, start, stop, o0, FALSE)
  ELSE IF stop - index < I.min_dpts_on_each_side
    THEN Outcome(1, index, start, stop, o0, FALSE)
  ELSE WithPosition(I, h, t, with_vel, index, start, stop, stop - start + 1,
         o0,
         stop - start + 1 > compute_workspace_size(I.max_millisec, h.interval),
         InterpolateComponents(I, h, t, start, stop - start + 1, 1,
                               o0.pos, o0.erpos))

\* interpolate_at once index_hunt has returned index
InterpolateFrom(I, h, t, with_vel, u, o0, index, max_t) ==
  InterpolateWindow(I, h, t, with_vel, o0, index,
                    StartOf(I, t, u, max_t, index),
                    StopOf(I, t, u, max_t, index))

\* SvInterpolator::interpolate_at(t, pos, erpos, vel, ervel):
\* [rc, last_index, index, start, stop, o, ub]; o holds the output arguments
\* (o0 before the call), with_vel tells that vel and ervel are not null, ub
\* that the arenas were written past their end
interpolate_at(I, h, t, with_vel, u, o0) ==
  InterpolateFrom(I, h, t, with_vel, u, o0, index_hunt(I, t, u),
                  cast_to_nanoseconds(I.max_millisec))

----------------------------------------------------------------------------
(* Opening a file and asking for its satellites: SpecHeader *)

Digit(d) == <<"0", "1", "2", "3", "4", "5", "6", "7", "8", "9">>[d + 1]

\* the id of the GPS satellite number i, and the id that pads a line
SatNo(i) == <<"G", Digit(i \div 10), Digit(i % 10)>>
PadId == <<" ", " ", "0">>

\* the "+ " lines that list n satellites, declaring num_sats of them: at
\* least five lines of IdsPerLine ids, padded with PadId; when short, the
\* first line is not padded and ends after its last id
IdLines(n, num_sats, short) ==
  LET count == Max(5, (n + IdsPerLine - 1) \div IdsPerLine)
      slot(j) == IF j <= n THEN SatNo(j) ELSE PadId
      width(l) == IF short /\ l = 1 THEN n ELSE IdsPerLine
  IN [l \in 1..count |->
        [HeaderLine("+", " ",
                    [j \in 1..width(l) |-> slot((l - 1) * IdsPerLine + j)],
                    0, 0)
         EXCEPT !.num_sats = IF l = 1 THEN num_sats ELSE 0]]

\* the lines that follow the satellite ids in a well-formed header
TailLines ==
  <<HeaderLine("+", "+", <<>>, 0, 0), HeaderLine("+", "+", <<>>, 0, 0),
    HeaderLine("+", "+", <<>>, 0, 0), HeaderLine("+", "+", <<>>, 0, 0),
    HeaderLine("+", "+", <<>>, 0, 0),
    HeaderLine("%", "c", <<>>, 0, 0), HeaderLine("%", "c", <<>>, 0, 0),
    HeaderLine("%", "f", <<>>, fpb_pos, fpb_clk),
    HeaderLine("%", "f", <<>>, 0, 0),
    HeaderLine("%", "i", <<>>, 0, 0), HeaderLine("%", "i", <<>>, 0, 0),
    HeaderLine("/", "*", <<>>, 0, 0), HeaderLine("/", "*", <<>>, 0, 0)>>

\* the start dates of the headers: a Sunday at 00:00 and a Monday at 06:00
StartDates ==
  { [year |-> 2020, month |-> 1, dom |-> 5, hour |-> 0],
    [year |-> 2020, month |-> 1, dom |-> 6, hour |-> 6] }

\* a header whose line 2 declares the week, seconds of week, MJD and fraction
\* of day of its start date moved by dw weeks, ds half nanoseconds, dm days,
\* dq quarters of a day and de units of 1e-13 day; it lists n satellites and
\* declares num_sats
HeadOf(date, dw, ds, dm, dq, de, n, num_sats, short) ==
  LET start == datetime(date.year, date.month, date.dom, date.hour, 0,
                        Seconds(0, 0))
      sow == gps_sow(start)
  IN [l1 |-> [kind |-> <<"#", "c">>, year |-> date.year, month |-> date.month,
              dom |-> date.dom, hour |-> date.hour, minute |-> 0,
              sec |-> Seconds(0, 0), num_epochs |-> 2],
      l2 |-> [kind |-> <<"#", "#">>,
              gwk |-> gps_week(start) + dw,
              sow |-> Seconds(sow.s, sow.f + ds),
              interval |-> Seconds(0, 200000000),
              mjd |-> start.mjd + dm,
              frac |-> DayFraction((start.sec \div 21600) + dq, de)],
      lines |-> IdLines(n, num_sats, short) \o TailLines]

\* the same header with one thing wrong in it
Faulty(hd, fault) ==
  CASE fault = 0 -> hd
    [] fault = -1 -> [hd EXCEPT !.l1.kind = <<"x", "c">>]
    [] fault = -2 -> [hd EXCEPT !.l1.kind = <<"#", "a">>]
    [] fault = -3 -> [hd EXCEPT !.l1.year = 0]
    [] fault = -4 -> [hd EXCEPT !.l1.month = 0]
    [] fault = -5 -> [hd EXCEPT !.l1.dom = 0]
    [] fault = -6 -> [hd EXCEPT !.l1.hour = -1]
    [] fault = -7 -> [hd EXCEPT !.l1.minute = -1]
    [] fault = -8 -> [hd EXCEPT !.l1.num_epochs = 0]
    [] fault = -9 -> [hd EXCEPT !.l2.kind = <<"#", " ">>]
    [] fault = -10 -> [hd EXCEPT !.lines[Len(hd.lines) - 5].fclk = 0]
    [] fault = -11 -> [hd EXCEPT !.l2.gwk = 0]
    [] fault = -12 -> [hd EXCEPT !.l2.mjd = 0]
    [] OTHER -> [hd EXCEPT !.lines[fault].kind = <<"/", "x">>]

\* the numbers of satellites listed and declared, and whether the first line
\* of ids is short
SatCounts ==
  { <<1, 1, FALSE>>, <<2, 2, FALSE>>, <<2, 1, FALSE>>, <<2, 0, FALSE>>,
    <<1, 2, FALSE>>, <<1, 2, TRUE>>, <<18, 18, FALSE>> }

HeadSet ==
  { HeadOf(date, dw, ds, dm, dq, de, c[1], c[2], c[3]) :
      date \in StartDates, dw \in {-1, 0}, ds \in {0, 1, 4},
      dm \in {-1, 0}, dq \in {0, 4}, de \in {0, 1, 1000}, c \in SatCounts }
  \cup
  { Faulty(HeadOf(date, 0, 0, 0, 0, 0, 2, 2, FALSE), fault) :
      date \in StartDates, fault \in (-12)..18 }

\* the header of the files of the other specifications
NoHead ==
  HeadOf(CHOOSE d \in StartDates : d.hour = 0, 0, 0, 0, 0, 0, 2, 2, FALSE)

InitHeader ==
  /\ head \in HeadSet
  /\ file = <<>>
  /\ rd = [pos |-> 1, mid |-> FALSE, eof |-> FALSE, fail |-> FALSE]
  /\ blk = NewBlock
  /\ op = "init"
  /\ req = NoSat
  /\ ret = 0
  /\ k = 0
  /\ hdr = NoHeader
  /\ itp = NoInterpolator
  /\ out = NoOutput

\* Sp3c::Sp3c(filename): when read_header fails the constructor throws and
\* there is no object
Open ==
  /\ op = "init"
  /\ \E r \in {read_header(head)} :
       /\ ret' = r.rc
       /\ hdr' = IF r.rc = 0 THEN r.h ELSE NoHeader
  /\ op' = "open"
  /\ UNCHANGED <<head, file, rd, blk, req, k, itp, out>>

\* SatelliteId(str): the first SAT_ID_CHARS characters of str
SatelliteId(str) == SubSeq(str, 1, SAT_ID_CHARS)

\* the strings a caller makes ids of
IdStrings ==
  { SatNo(1), SatNo(1) \o <<"1">>, SatNo(2), SatNo(3), SatNo(18), PadId,
    NoSat }

\* has_sv(SatelliteId(str)) on an open file
HasSv(str) ==
  /\ op \in {"open", "has_sv"}
  /\ hdr # NoHeader
  /\ op' = "has_sv"
  /\ req' = SatelliteId(str)
  /\ ret' = IF has_sv(hdr.sat_vec, SatelliteId(str)) THEN 1 ELSE 0
  /\ UNCHANGED <<head, file, rd, blk, k, hdr, itp, out>>

NextHeader == Open \/ \E str \in IdStrings : HasSv(str)

SpecHeader == InitHeader /\ [][NextHeader]_vars

----------------------------------------------------------------------------
(* The reader on a data section: SpecReader *)

\* the lines the data sections of SpecReader are made of
LineSet ==
  { EpochLine(1), EpochLine(2),
    PLine(G01, <<11, 12, 13, 14>>, NoSdev, {}),
    PLine(G02, <<21, 22, 23, 24>>, <<<<1>>, <<2>>, <<3>>, <<1>>>>, {"maneuver"}),
    VLine(G02, <<25, 26, 27, 28>>, NoSdev),
    PLine(G01, <<0, 0, 0, SP3_MISSING_CLK_VALUE>>, NoSdev, {}),
    EOFLine, EPLine }

\* the lines the data sections of SpecStream are made of: with a line that is
\* no record and an epoch header longer than the line buffer
StreamLineSet ==
  { EpochLine(1), LongEpochLine(3),
    PLine(G01, <<11, 12, 13, 14>>, NoSdev, {}),
    EOFLine, JunkLine }

FilesOver(L) == UNION { [1..n -> L] : n \in 0..MaxLines }

\* the satellite ids a caller asks for
ReqSats == {G01, G02}

Min(a, b) == IF a < b THEN a ELSE b

InitOver(L) ==
  /\ head = NoHead
  /\ file \in FilesOver(L)
  /\ rd = [pos |-> end_of_head.pos, mid |-> end_of_head.mid,
           eof |-> FALSE, fail |-> FALSE]
  /\ blk = NewBlock
  /\ op = "init"
  /\ req = NoSat
  /\ ret = 0
  /\ k = 0
  /\ itp = NoInterpolator
  /\ out = NoOutput

InitReader == InitOver(LineSet) /\ hdr = HeaderOf(2, <<G01, G02>>)

InitStream == InitOver(StreamLineSet) /\ hdr = HeaderOf(2, <<G01, G02>>)

GetNextDataBlock(sv) ==
  \E r \in {get_next_data_block(file, rd, blk, sv)} :
  /\ rd' = r.s
  /\ blk' = r.b
  /\ op' = "get"
  /\ req' = sv
  /\ ret' = r.rc
  /\ k' = Min(k + 1, MaxLines + 2)
  /\ UNCHANGED <<head, file, hdr, itp, out>>

PeakNextDataBlock ==
  \E r \in {peak_next_data_block(file, rd, DatetimeMin)} :
  /\ rd' = r.s
  /\ op' = "peak"
  /\ ret' = r.rc
  /\ UNCHANGED <<head, file, blk, req, k, hdr, itp, out>>

Rewind ==
  /\ rd' = rewind(rd)
  /\ op' = "rewind"
  /\ ret' = 0
  /\ k' = IF rd.fail THEN k ELSE 0
  /\ UNCHANGED <<head, file, blk, req, hdr, itp, out>>

NextReader ==
  \/ \E sv \in ReqSats : GetNextDataBlock(sv)
  \/ PeakNextDataBlock
  \/ Rewind

SpecReader == InitReader /\ [][NextReader]_vars

SpecStream == InitStream /\ [][NextReader]_vars

----------------------------------------------------------------------------
(* Construction of the interpolator on a data section: SpecFeed *)

MaxMinPts == 2

\* the one-sided look-around durations a caller passes, in milliseconds
MaxMillisecSet == {150, 250}

\* a P line whose position and clock are the "missing" values
MissingPLine == PLine(G01, <<0, 0, 0, SP3_MISSING_CLK_VALUE>>, NoSdev, {})

FeedLineSet ==
  { EpochLine(1), EpochLine(2),
    PLine(G01, <<11, 12, 13, 14>>, NoSdev, {}),
    MissingPLine, EOFLine, JunkLine }

InitFeed ==
  /\ InitOver(FeedLineSet)
  /\ \E n \in 0..MaxLines, svs \in {<<G01>>, <<G02>>, <<G02, G01>>} :
       hdr = HeaderOf(n, svs)

\* the constructor of SvInterpolator.  Writing past the allocated array is
\* undefined: the process may die there, or go on as if the writes had landed
Construct(sid, ms, mp) ==
  \E r \in {SvInterpolator(file, rd, hdr, sid, ms, mp)} :
  /\ op # "crash"
  /\ \E died \in (IF r.overrun THEN BOOLEAN ELSE {FALSE}) :
       /\ op' = IF died THEN "crash" ELSE "construct"
       /\ itp' = IF died THEN NoInterpolator ELSE r.itp
       /\ ret' = IF died THEN -2 ELSE r.rc
  /\ rd' = r.s
  /\ req' = sid
  /\ UNCHANGED <<head, file, blk, k, hdr, out>>

NextFeed ==
  \E sid \in ReqSats, ms \in MaxMillisecSet, mp \in 1..MaxMinPts :
    Construct(sid, ms, mp)

SpecFeed == InitFeed /\ [][NextFeed]_vars

----------------------------------------------------------------------------
(* Queries on a constructed interpolator: SpecInterp *)

MaxT == 2
MaxPts == 3

\* the epochs a file can hold: multiples of the nominal interval
GridTimes == { i * Interval : i \in 0..MaxT }

\* the block feed_from_sp3 stores for the epoch t
SampleBlock(t) ==
  LET n == t \div Interval IN
  [t |-> t,
   state |-> <<n * n, n + 1, 2, 0, n, 1, 3 - n, 0>>,
   sdev |-> NewBlock.sdev,
   flag |-> {}]

\* the blocks of the epochs in S, in time order
RECURSIVE SeriesOf(_)
SeriesOf(S) ==
  IF S = {} THEN <<>>
  ELSE LET m == CHOOSE x \in S : \A y \in S : y <= x
       IN Append(SeriesOf(S \ {m}), SampleBlock(m))

\* an interpolator as its constructor leaves it
InterpolatorOf(S, alloc, ms, mp) ==
  [built |-> TRUE, svid |-> G01, num_dpts |-> Cardinality(S),
   data |-> SeriesOf(S), alloc |-> alloc, last_index |-> 0,
   max_millisec |-> ms, min_dpts_on_each_side |-> mp,
   wsz |-> compute_workspace_size(ms, Interval)]

InterpMillisecSet == {50, 150}

InitInterp ==
  /\ head = NoHead
  /\ file = <<>>
  /\ rd = [pos |-> 1, mid |-> FALSE, eof |-> FALSE, fail |-> FALSE]
  /\ blk = NewBlock
  /\ op = "init"
  /\ req = NoSat
  /\ ret = 0
  /\ k = 0
  /\ out = NoOutput
  /\ \E S \in SUBSET GridTimes, extra \in 0..2,
        ms \in InterpMillisecSet, mp \in 1..MaxMinPts :
       /\ Cardinality(S) <= MaxPts
       /\ Cardinality(S) + extra >= 1
       /\ hdr = HeaderOf(Cardinality(S) + extra, <<G01>>)
       /\ itp = InterpolatorOf(S, Cardinality(S) + extra, ms, mp)

\* the times a caller asks for: half intervals, from before the first epoch
\* of the grid to after its last
QueryTimes == { i * (Interval \div 2) : i \in (-3)..(2 * MaxT + 3) }

\* what an element past the end of data can hold as its t
Garbage == {DatetimeMin, -DatetimeMin}

\* the contents of the three elements past the array that a call may read
StrayReads(I) ==
  IF I.last_index + 1 >= I.alloc \/ I.num_dpts >= I.alloc
  THEN [0..2 -> Garbage] ELSE {[i \in 0..2 |-> DatetimeMin]}

\* outputs the caller passes in: arrays of three doubles
ZeroOutput ==
  [pos |-> <<RZero, RZero, RZero>>, erpos |-> <<RZero, RZero, RZero>>,
   vel |-> <<RZero, RZero, RZero>>, ervel |-> <<RZero, RZero, RZero>>]

\* interpolate_at(t, pos, erpos, vel, ervel).  Writing past the arenas is
\* undefined: the process may die there, or go on with what it computed
InterpolateAt(t, with_vel) ==
  /\ op # "crash"
  /\ itp.built
  /\ \E u \in StrayReads(itp) :
       \E r \in {interpolate_at(itp, hdr, t, with_vel, u, ZeroOutput)} :
       \E died \in (IF r.ub THEN BOOLEAN ELSE {FALSE}) :
         /\ op' = IF died THEN "crash" ELSE "interp"
         /\ ret' = IF died THEN -2 ELSE r.rc
         /\ itp' = [itp EXCEPT !.last_index = r.last_index]
         /\ out' = [pos |-> r.o.pos, erpos |-> r.o.erpos, vel |-> r.o.vel,
                    ervel |-> r.o.ervel, start |-> r.start, stop |-> r.stop]
  /\ req' = [t |-> t, with_vel |-> with_vel]
  /\ UNCHANGED <<head, file, rd, blk, k, hdr>>

NextInterp == \E t \in QueryTimes, with_vel \in BOOLEAN : InterpolateAt(t, with_vel)

SpecInterp == InitInterp /\ [][NextInterp]_vars

----------------------------------------------------------------------------
(* The two Neville routines on the same inputs: SpecNeville *)

MaxN == 3

\* abscissas (with coincident ones), ordinates and query points, for arrays
\* of n elements
NevilleInputs(n) ==
  { [t |-> t, tt |-> tt, xx |-> xx, yy |-> yy, zz |-> zz,
     array_size |-> n, mm |-> mm, from_index |-> fi] :
      mm \in 1..(n + 1), fi \in 0..1,
      t \in {<<1, 2>>, <<5, 2>>},
      tt \in [0..(n - 1) -> {RInt(0), RInt(1), RInt(2)}],
      xx \in [0..(n - 1) -> {RInt(0), RInt(1)}],
      yy \in [0..(n - 1) -> {RInt(0), RInt(1)}],
      zz \in {[i \in 0..(n - 1) |-> RInt(2 - i)]} }

InitNeville ==
  /\ head = NoHead
  /\ file = <<>>
  /\ rd = [pos |-> 1, mid |-> FALSE, eof |-> FALSE, fail |-> FALSE]
  /\ blk = NewBlock
  /\ op = "init"
  /\ ret = 0
  /\ k = 0
  /\ hdr = HeaderOf(1, <<G01>>)
  /\ itp = NoInterpolator
  /\ out = NoOutput
  /\ req \in NevilleInputs(MaxN)

\* a call of neville_interpolation3 with a workspace of 6 * array_size
NevilleInterpolation3 ==
  \E r \in {neville_interpolation3(req.t, ZeroOutput.pos, ZeroOutput.erpos,
               req.tt, req.xx, req.yy, req.zz, req.array_size, req.mm,
               req.from_index, [j \in 0..(6 * req.array_size - 1) |-> RZero])} :
  /\ op' = "neville3"
  /\ ret' = r.rc
  /\ out' = [NoOutput EXCEPT !.pos = r.estimates, !.erpos = r.destimates]
  /\ UNCHANGED <<head, file, rd, blk, req, k, hdr, itp>>

\* a call of neville_interpolation on the ordinates of one component
NevilleInterpolation(yy) ==
  \E r \in {neville_interpolation(req.t, RZero, RZero, req.tt, yy,
                                   req.array_size, req.mm, req.from_index)} :
  /\ op' = "neville"
  /\ ret' = r.rc
  /\ out' = [NoOutput EXCEPT !.pos = <<r.y>>, !.erpos = <<r.dy>>]
  /\ UNCHANGED <<head, file, rd, blk, req, k, hdr, itp>>

NextNeville ==
  \/ NevilleInterpolation3
  \/ \E yy \in {req.xx, req.yy, req.zz} : NevilleInterpolation(yy)

SpecNeville == InitNeville /\ [][NextNeville]_vars

----------------------------------------------------------------------------
(* neville_interpolation on samples of a polynomial: SpecPoly *)

MaxSamples == 5

\* the polynomials, as the coefficients of 1, t, t^2, t^3; the first is
\* f(t) = 2t^2 - 3t + 1
Polynomials ==
  { <<1, -3, 2, 0>>, <<1, 0, 0, 0>>, <<0, 1, 0, 0>>, <<0, 0, 0, 1>>,
    <<2, 1, -1, 1>> }

\* the value of the polynomial at the rational t
PolyAt(coef, t) ==
  RAdd(RInt(coef[1]),
       RMul(t, RAdd(RInt(coef[2]),
                    RMul(t, RAdd(RInt(coef[3]), RMul(t, RInt(coef[4])))))))

\* the arrays xx and yy a caller fills with the samples of a polynomial at
\* the abscissas S, in increasing order, and the query point
PolySamples(S, coef, t) ==
  LET xx == [i \in 0..(Cardinality(S) - 1) |->
               RInt(CHOOSE x \in S : Cardinality({y \in S : y < x}) = i)]
  IN [t |-> t, tt |-> xx, yy |-> [i \in DOMAIN xx |-> PolyAt(coef, xx[i])],
      array_size |-> Cardinality(S), coef |-> coef]

InitPoly ==
  /\ head = NoHead
  /\ file = <<>>
  /\ rd = [pos |-> 1, mid |-> FALSE, eof |-> FALSE, fail |-> FALSE]
  /\ blk = NewBlock
  /\ op = "init"
  /\ ret = 0
  /\ k = 0
  /\ hdr = HeaderOf(1, <<G01>>)
  /\ itp = NoInterpolator
  /\ out = NoOutput
  /\ \E S \in SUBSET (0..5), coef \in Polynomials, j \in 0..10 :
       /\ Cardinality(S) \in 1..MaxSamples
       /\ req = PolySamples(S, coef, Rat(j, 2))

\* a call of neville_interpolation that uses the first mm samples
NevilleSamples(mm) ==
  \E r \in {neville_interpolation(req.t, RZero, RZero, req.tt, req.yy,
                                   req.array_size, mm, 0)} :
  /\ op' = "poly"
  /\ ret' = r.rc
  /\ k' = mm
  /\ out' = [NoOutput EXCEPT !.pos = <<r.y>>, !.erpos = <<r.dy>>]
  /\ UNCHANGED <<head, file, rd, blk, req, hdr, itp>>

NextPoly == \E mm \in 1..req.array_size : NevilleSamples(mm)

SpecPoly == InitPoly /\ [][NextPoly]_vars

----------------------------------------------------------------------------
(* Sp3Iterator on a data section: SpecIterator *)

\* the body of Sp3Iterator::Sp3Iterator(sp3) and of begin(), up to the test
\* that throws: [rc, s, b]; id_ is default constructed
begin(f, s, b) == get_next_data_block(f, rewind(s), b, NoSat)

\* Sp3Iterator::advance(): [rc, s, b]
advance(f, s, b) == get_next_data_block(f, s, b, NoSat)

\* the while loop of goto_epoch and the returns that follow it: [rc, s, b]
RECURSIVE GotoLoop(_, _, _, _)

\* the loop after advance(), a being what it returned
AfterAdvance(f, t, a) ==
  IF a.rc # 0 THEN [rc |-> a.rc, s |-> a.s, b |-> a.b]
  ELSE GotoLoop(f, a.s, a.b, t)

\* the loop after peak_next_epoch(ct), p being what it returned
AfterPeak(f, b, t, p) ==
  IF p.rc < 0 THEN [rc |-> -1, s |-> p.s, b |-> b]
  ELSE IF p.rc # 0 THEN [rc |-> p.rc, s |-> p.s, b |-> b]
  ELSE IF p.t < t
    THEN AfterAdvance(f, t, advance(f, p.s, b))
  ELSE [rc |-> 0, s |-> p.s, b |-> b]

GotoLoop(f, s, b, t) == AfterPeak(f, b, t, peak_next_data_block(f, s, b.t))

\* goto_epoch after begin(), r being what get_next_data_block returned in it:
\* begin() throws on an error, which ends the process since goto_epoch is
\* noexcept; otherwise goto_epoch returns 10 or calls itself
AfterBegin(t, r) ==
  IF r.rc # 0 THEN [what |-> "terminate", rc |-> r.rc, s |-> r.s, b |-> r.b]
  ELSE IF r.b.t > t THEN [what |-> "return", rc |-> 10, s |-> r.s, b |-> r.b]
  ELSE [what |-> "call", rc |-> 0, s |-> r.s, b |-> r.b]

\* one activation of Sp3Iterator::goto_epoch(t), up to its return or to its
\* call of itself: [what, rc, s, b]
goto_epoch(f, s, b, t) ==
  IF b.t < t THEN [what |-> "return"] @@ GotoLoop(f, s, b, t)
  ELSE AfterBegin(t, begin(f, s, b))

\* the activations of goto_epoch counted in one call, up to this number
MaxCalls == 3

\* the lines the data sections of SpecIterator are made of
IterLineSet ==
  { EpochLine(1), EpochLine(2), LongEpochLine(3),
    PLine(G01, <<11, 12, 13, 14>>, NoSdev, {}), EOFLine }

\* the times a caller asks goto_epoch for
TargetTimes == 0..3

\* the file is open and its stream at the start of the data; req holds the
\* target time of the last goto_epoch
InitIterator ==
  /\ head = NoHead
  /\ file \in FilesOver(IterLineSet)
  /\ rd = [pos |-> end_of_head.pos, mid |-> end_of_head.mid,
           eof |-> FALSE, fail |-> FALSE]
  /\ blk = NewBlock
  /\ op = "init"
  /\ req = 0
  /\ ret = 0
  /\ k = 0
  /\ hdr = HeaderOf(2, <<G01, G02>>)
  /\ itp = NoInterpolator
  /\ out = NoOutput

\* an iterator exists and no call of it is running
Idle == op \in {"ctor", "begin", "advance", "goto"}

\* Sp3Iterator::Sp3Iterator(sp3): when it throws there is no iterator
Sp3Iterator ==
  /\ op = "init"
  /\ \E r \in {begin(file, rd, blk)} :
       /\ rd' = r.s
       /\ blk' = r.b
       /\ ret' = r.rc
       /\ op' = IF r.rc # 0 THEN "throw" ELSE "ctor"
  /\ UNCHANGED <<head, file, req, k, hdr, itp, out>>

\* begin(): a non-zero ret stands for the exception the caller catches
Begin ==
  /\ Idle
  /\ \E r \in {begin(file, rd, blk)} :
       /\ rd' = r.s
       /\ blk' = r.b
       /\ ret' = r.rc
  /\ op' = "begin"
  /\ UNCHANGED <<head, file, req, k, hdr, itp, out>>

Advance ==
  /\ Idle
  /\ \E r \in {advance(file, rd, blk)} :
       /\ rd' = r.s
       /\ blk' = r.b
       /\ ret' = r.rc
  /\ op' = "advance"
  /\ UNCHANGED <<head, file, req, k, hdr, itp, out>>

\* one activation of goto_epoch(t), the calls-th of a call by the user
Activation(t, calls) ==
  \E r \in {goto_epoch(file, rd, blk, t)} :
    /\ rd' = r.s
    /\ blk' = r.b
    /\ ret' = r.rc
    /\ req' = t
    /\ k' = Min(calls, MaxCalls)
    /\ op' = CASE r.what = "return" -> "goto"
               [] r.what = "call" -> "goto_epoch"
               [] OTHER -> "terminate"
    /\ UNCHANGED <<head, file, hdr, itp, out>>

\* the caller calls goto_epoch(t)
GotoEpoch(t) == Idle /\ Activation(t, 1)

\* goto_epoch(t) runs the call of itself it has made
GotoEpochAgain == op = "goto_epoch" /\ Activation(req, k + 1)

NextIterator ==
  \/ Sp3Iterator
  \/ Begin
  \/ Advance
  \/ \E t \in TargetTimes : GotoEpoch(t)
  \/ GotoEpochAgain

SpecIterator == InitIterator /\ [][NextIterator]_vars

\* the same on the shorter data sections, where a call that is running goes
\* on running
MaxLiveLines == 2

InitLive == InitIterator /\ Len(file) <= MaxLiveLines

LiveIterator == InitLive /\ [][NextIterator]_vars /\ WF_vars(GotoEpochAgain)

----------------------------------------------------------------------------
(* Claims about the reader *)

FreshStream ==
  [pos |-> end_of_head.pos, mid |-> end_of_head.mid, eof |-> FALSE, fail |-> FALSE]

\* the values the lines of satellite sv hold for state[i] / state_sdev[i]
StateValuesOf(sv, i) ==
  { file[n].d[IF i <= 4 THEN i ELSE i - 4] :
      n \in { m \in 1..Len(file) :
                /\ file[m].kind = (IF i <= 4 THEN "P" ELSE "V")
                /\ SatEq(file[m].sat, sv) } }

SdevValuesOf(sv, i) ==
  { StdDevs(file[n], NewBlock.sdev, IF i <= 4 THEN 0 ELSE 4).sdev[i] :
      n \in { m \in 1..Len(file) :
                /\ file[m].kind = (IF i <= 4 THEN "P" ELSE "V")
                /\ SatEq(file[m].sat, sv) } }

\* C1: get_next_data_block(S, block) changes block.state and block.state_sdev
\* only to values read from P / V lines of satellite S: lines of other
\* satellites leave them as they were.
C1_OnlyLinesOfRequestedSat ==
  [][op' = "get" =>
       \A i \in 1..8 :
         /\ blk'.state[i] = blk.state[i] \/ blk'.state[i] \in StateValuesOf(req', i)
         /\ blk'.sdev[i] = blk.sdev[i] \/ blk'.sdev[i] \in SdevValuesOf(req', i)]_vars

\* a data section as the format defines it: epochs of P / V / EP / EV lines,
\* every field well formed, closed by the one EOF line
WellFormed(f) ==
  /\ Len(f) >= 1
  /\ f[Len(f)].kind = "EOF"
  /\ f[1].kind \in {"*", "EOF"}
  /\ \A n \in 1..Len(f) :
       /\ f[n].kind \in {"*", "P", "V", "EP", "EV", "EOF"}
       /\ f[n].kind = "EOF" => n = Len(f)
       /\ ~f[n].long
       /\ f[n].bad = 0
       /\ \A i \in 1..4 : f[n].s[i] # <<0>>

EpochLines(f) == SelectSeq(f, LAMBDA l : l.kind = "*")

NumEpochs(f) == Len(EpochLines(f))

\* C2: on a well-formed data section with N epoch headers the calls made
\* from the start of data return success N times (the k-th call, k <= N,
\* returns 0), and the call after them reports end-of-stream (-1).
C2_SuccessForEveryEpoch ==
  (WellFormed(file) /\ op = "get") =>
    /\ k <= NumEpochs(file) => ret = 0
    /\ k = NumEpochs(file) + 1 => ret = -1

\* satellite sv has a P line with a valid position and clock in every epoch
\* of f, and no line of another satellite
ValidInEveryEpoch(f, sv) ==
  /\ \A n \in 1..Len(f) :
       f[n].kind = "P" =>
         /\ SatEq(f[n].sat, sv)
         /\ \A i \in 1..3 : f[n].d[i] # 0
         /\ f[n].d[4] < SP3_MISSING_CLK_VALUE
  /\ \A n \in 1..Len(f) :
       f[n].kind = "*" => (n < Len(f) /\ f[n + 1].kind = "P")

\* C3: constructing a SvInterpolator for a satellite that has a valid position
\* and clock record in every one of the N epochs of a well-formed file (whose
\* header declares that satellite and N epochs) retains N points, one per
\* epoch in file order.
C3_RetainsOnePointPerEpoch ==
  (/\ op = "construct"
   /\ WellFormed(file) /\ ValidInEveryEpoch(file, req)
   /\ NumEpochs(file) >= 1 /\ hdr.num_epochs = NumEpochs(file)
   /\ has_sv(hdr.sat_vec, req))
  => /\ ret = 0
     /\ itp.num_dpts = NumEpochs(file)
     /\ \A i \in 1..NumEpochs(file) : itp.data[i].t = EpochLines(file)[i].t

\* C8: peak_next_data_block leaves the stream position where it was,
\* whatever it returns.
C8_PeakKeepsPosition ==
  [][op' = "peak" => (rd'.pos = rd.pos /\ rd'.mid = rd.mid)]_vars

\* the data section starts with an epoch header that resolves
StartsWithEpoch(f) ==
  Len(f) >= 1 /\ f[1].kind = "*" /\ f[1].bad = 0 /\ ~f[1].long

\* C9: after rewind() the next get_next_data_block parses the first epoch of
\* the data section (it does what it does on a reader that sits at the start
\* of the data), whatever was called before the rewind.
C9_RewindThenGetReadsFirstEpoch ==
  [][(op = "rewind" /\ op' = "get" /\ StartsWithEpoch(file)) =>
       LET r == get_next_data_block(file, FreshStream, blk, req') IN
       /\ blk'.t = file[1].t
       /\ ret' = r.rc /\ blk' = r.b /\ rd' = r.s]_vars

----------------------------------------------------------------------------
(* Claims about the interpolator *)

\* the call reads no element past the end of the data array, whether it
\* starts from last_index 0 or from the cached last_index
ReadsInsideArray(I) ==
  I.alloc > I.num_dpts /\ I.alloc > I.last_index + 1 /\ I.alloc > 1

\* C4: interpolate_at(t) returns the same status, selects the same window and
\* writes the same results as it does on the interpolator with last_index = 0
\* (as constructed), whatever calls preceded it.
C4_CacheInvariant ==
  [][(op' = "interp" /\ ReadsInsideArray(itp)) =>
       \E f \in {interpolate_at([itp EXCEPT !.last_index = 0], hdr, req'.t,
                                req'.with_vel, [i \in 0..2 |-> DatetimeMin],
                                ZeroOutput)} :
          /\ ret' = f.rc
          /\ (ret' = 0 => (out'.start = f.start /\ out'.stop = f.stop))
          /\ out'.pos = f.o.pos /\ out'.erpos = f.o.erpos
          /\ out'.vel = f.o.vel /\ out'.ervel = f.o.ervel]_vars

\* t is outside the retained samples by more than the look-around duration
BeyondCoverage(I, t) ==
  /\ I.num_dpts >= 1
  /\ \/ t < I.data[1].t - cast_to_nanoseconds(I.max_millisec)
     \/ t > I.data[I.num_dpts].t + cast_to_nanoseconds(I.max_millisec)

\* C5: for every t earlier than the first retained sample or later than the
\* last one by more than the maximum look-around duration, interpolate_at(t)
\* returns the too-few-points error (1), never success, from any last_index.
C5_TooFewPointsBeyondCoverage ==
  (op = "interp" /\ BeyondCoverage(itp, req.t)) => ret = 1

\* a query after the last sample, answered through the binary search, which
\* returns the index one past the last sample
C5_Witness ==
  /\ op = "interp" /\ itp.num_dpts >= 2 /\ ret = 1
  /\ req.t > itp.data[itp.num_dpts].t + cast_to_nanoseconds(itp.max_millisec)
  /\ itp.last_index = itp.num_dpts

----------------------------------------------------------------------------
(* Claims about the Neville routines *)

\* C10: with at least two samples, each of the three results and error
\* estimates of neville_interpolation3 equals what neville_interpolation
\* returns on that component's ordinates, same abscissas and query point.
C10_Neville3EqualsScalar ==
  (op = "neville3" /\ req.mm >= 2 /\ req.from_index + req.mm <= req.array_size)
  => \A j \in 1..3 :
       LET s == neville_interpolation(req.t, RZero, RZero, req.tt,
                  <<req.xx, req.yy, req.zz>>[j], req.array_size, req.mm,
                  req.from_index)
       IN /\ ret = s.rc
          /\ ret = 0 => (out.pos[j] = s.y /\ out.erpos[j] = s.dy)

----------------------------------------------------------------------------
(* Claims about the header *)

\* the start epoch the date of line 1 gives
StartOf1(hd) ==
  datetime(hd.l1.year, hd.l1.month, hd.l1.dom, hd.l1.hour, hd.l1.minute,
           hd.l1.sec)

\* the two pairs of line 2 are the ones computed from the date of line 1
PairsAgree(hd) ==
  /\ hd.l2.gwk = gps_week(StartOf1(hd))
  /\ hd.l2.sow = gps_sow(StartOf1(hd))
  /\ hd.l2.mjd = StartOf1(hd).mjd
  /\ hd.l2.frac = DayFraction(StartOf1(hd).sec \div 21600, 0)

\* C6: construction fails whenever the (week, seconds of week) pair or the
\* (MJD, fraction of day) pair of line 2 disagrees with the date of line 1;
\* the checks of line 2 are passed only when both pairs agree.
C6_FailsWheneverPairsDisagree ==
  (op = "open" /\ ret \notin 10..24) => PairsAgree(head)

\* the seconds of week of line 2 are within 1e-9 s of the computed ones
SowWithinNanosecond(hd) ==
  LET d == (hd.l2.sow.s - gps_sow(StartOf1(hd)).s) * HalfNanosPerSec
           + (hd.l2.sow.f - gps_sow(StartOf1(hd)).f)
  IN d >= -2 /\ d <= 2

\* MJD plus fraction of line 2, summed in double precision, is the
\* fractional MJD of the start epoch
MjdSumAgrees(hd) ==
  /\ 4 * hd.l2.mjd + hd.l2.frac.q
       = 4 * StartOf1(hd).mjd + (StartOf1(hd).sec \div 21600)
  /\ hd.l2.frac.e * 137439 < 5000000

\* C6 amended: once lines 1 and 2 are parsed, read_header returns 22 exactly
\* when the week differs or the seconds of week differ by more than 1e-9 s,
\* and otherwise 24 exactly when a non-zero MJD plus the fraction, summed in
\* double precision, is not the fractional MJD of the start epoch; the checks
\* are passed only when the pairs agree to within these resolutions.
C6_FailsBeyondResolution ==
  (op = "open" /\ ret \notin 10..21) =>
    /\ ret = 22 <=> (head.l2.gwk # gps_week(StartOf1(head)) \/ ~SowWithinNanosecond(head))
    /\ (ret # 22 /\ head.l2.mjd # 0) => (ret = 24 <=> ~MjdSumAgrees(head))

\* a header whose week is right and whose seconds of week are 2 ns off has
\* been rejected
C6_Witness ==
  /\ op = "open" /\ ret = 22
  /\ head.l2.gwk = gps_week(StartOf1(head))
  /\ head.l2.sow # gps_sow(StartOf1(head))

\* the i-th id of the header, counting along the "+ " lines from the third
\* line of the file, IdsPerLine to a line; NoSat where the line has none
ListedId(hd, i) ==
  LET line == hd.lines[1 + ((i - 1) \div IdsPerLine)]
      j == 1 + ((i - 1) % IdsPerLine)
  IN IF j <= Len(line.ids) THEN line.ids[j] ELSE NoSat

ThreeCharacters(id) == \A c \in 1..3 : id[c] # NUL

\* C7: has_sv(id) of an id of three characters is true if and only if the
\* three characters are, one by one, those of one of the ids of the list; the
\* list holds the declared number of ids, and they are the ids written in the
\* header, in the order of the header.
C7_HasSvIffDeclared ==
  (hdr # NoHeader) =>
    /\ Len(hdr.sat_vec) = head.lines[1].num_sats
    /\ \A i \in 1..Len(hdr.sat_vec) :
         ListedId(head, i) # NoSat => hdr.sat_vec[i] = ListedId(head, i)
    /\ (op = "has_sv" /\ ThreeCharacters(req)) =>
         (ret = 1 <=> \E i \in 1..Len(hdr.sat_vec) :
                        \A c \in 1..3 : hdr.sat_vec[i][c] = req[c])

\* the id listed first on the second line of ids has been asked for and found
C7_Witness ==
  /\ op = "has_sv" /\ ret = 1
  /\ hdr.num_sats > IdsPerLine /\ req = ListedId(head, IdsPerLine + 1)

----------------------------------------------------------------------------
(* Claims about the return codes of interpolate_at *)

\* which check of the last interpolate_at failed: the window it left is in out
FailureKind ==
  IF op # "interp" \/ ret = 0 THEN "none"
  ELSE IF itp.last_index - out.start < itp.min_dpts_on_each_side THEN "left"
  ELSE IF out.stop - itp.last_index < itp.min_dpts_on_each_side THEN "right"
  ELSE "tableau"

\* C11: two calls of interpolate_at that fail for different reasons (too few
\* points on the left, too few on the right, failed tableau) return different
\* codes.
C11_FailureKindsHaveOwnCodes ==
  [][(op = "interp" /\ op' = "interp" /\ ret # 0 /\ ret' # 0
      /\ FailureKind # FailureKind') => ret # ret']_vars

----------------------------------------------------------------------------
(* Claims about the error codes of read_header *)

\* the section a line of a header of HeadSet belongs to: five lines of
\* satellite ids, five of accuracies, two of each "%" kind, then comments
SectionOf(i) ==
  IF i <= 5 THEN "ids" ELSE IF i <= 10 THEN "accuracy"
  ELSE IF i <= 12 THEN "time" ELSE IF i <= 14 THEN "bases"
  ELSE IF i <= 16 THEN "flags" ELSE "comments"

\* the first two characters the lines of a section start with
MarkerOf(section) ==
  CASE section = "ids" -> <<"+", " ">>
    [] section = "accuracy" -> <<"+", "+">>
    [] section = "time" -> <<"%", "c">>
    [] section = "bases" -> <<"%", "f">>
    [] section = "flags" -> <<"%", "i">>
    [] section = "comments" -> <<"/", "*">>

\* the codes read_header has for a section
CodesOf(section) ==
  CASE section = "ids" -> {30, 31}
    [] section = "accuracy" -> {40, 41}
    [] section = "time" -> {50, 51}
    [] section = "bases" -> {60, 61, 65}
    [] section = "flags" -> {70}
    [] section = "comments" -> {80, 81}

\* the lines of the header that do not start with their section's marker
BadMarkers ==
  { i \in 1..Len(head.lines) : head.lines[i].kind # MarkerOf(SectionOf(i)) }

\* C12: opening a file whose header has a line that does not start with the
\* marker of its section (the two "#" lines being right) fails with a code
\* of that section, and leaves no reader.
C12_SectionFailsWithItsCode ==
  (op = "open" /\ head.l1.kind = <<"#", "c">> /\ head.l2.kind = <<"#", "#">>)
    => \A i \in BadMarkers : ret \in CodesOf(SectionOf(i)) /\ hdr = NoHeader

----------------------------------------------------------------------------
(* Claims about neville_interpolation on a polynomial *)

\* the degree of the polynomial (0 for a constant)
Degree(coef) ==
  IF coef[4] # 0 THEN 3 ELSE IF coef[3] # 0 THEN 2 ELSE IF coef[2] # 0 THEN 1
  ELSE 0

\* the query point lies between the first and the last of the mm samples used
InsideSpan(mm) == ~RLt(req.t, req.tt[0]) /\ ~RLt(req.tt[mm - 1], req.t)

\* the call used more samples than the degree of the polynomial and the query
\* point is inside their span
PolyCase == op = "poly" /\ k > Degree(req.coef) /\ InsideSpan(k)

ReturnsPolynomialValue == ret = 0 /\ out.pos[1] = PolyAt(req.coef, req.t)

\* C13 as stated: the call returns the polynomial's value, and a call that
\* uses more samples than the call before it reports an error estimate that
\* is not larger.
C13_ExactAndEstimateShrinks ==
  [][(op' = "poly" /\ k' > Degree(req.coef) /\ InsideSpan(k'))
       => /\ ret' = 0 /\ out'.pos[1] = PolyAt(req.coef, req.t)
          /\ (op = "poly" /\ 2 <= k /\ k < k' /\ InsideSpan(k))
               => ~RLt(RAbs(out.erpos[1]), RAbs(out'.erpos[1]))]_vars

\* C13: neville_interpolation on mm samples of a polynomial of degree less
\* than mm, at a query point inside their span, returns the polynomial's
\* value; its error estimate is the last correction, which is zero when mm
\* exceeds the degree by two or more.
C13_ExactAndLastCorrectionZero ==
  PolyCase => /\ ReturnsPolynomialValue
              /\ k >= Degree(req.coef) + 2 => out.erpos[1] = RZero

\* the quadratic of the claim on five samples, at a point that is not a sample
C13_Witness ==
  /\ PolyCase /\ ReturnsPolynomialValue
  /\ req.coef = <<1, -3, 2, 0>> /\ k = 5 /\ req.t[2] = 2

----------------------------------------------------------------------------
(* Claims about the flags of the block get_next_data_block returns *)

\* the lines of the epoch a call has read: those between the position of the
\* stream before the call (the epoch header) and its position after it
EpochRead(before, after) == { n \in 1..Len(file) : before.pos < n /\ n < after.pos }

\* the lines of kind P or V among them that are of satellite sv
LinesOf(lines, kind, sv) ==
  { n \in lines : file[n].kind = kind /\ SatEq(file[n].sat, sv) }

\* a P line with a position and a clock value
HasPositionAndClock(l) ==
  /\ \A i \in 1..3 : l.d[i] # 0
  /\ l.d[4] < SP3_MISSING_CLK_VALUE

\* C14: when the epoch a successful call has read holds one P line of the
\* requested satellite, with non-zero X, Y, Z and a clock value below the
\* missing-value sentinel, the block has absent-position and absent-clock
\* clear, whatever lines of other satellites the epoch holds.
C14_ValidLineClearsAbsentFlags ==
  [][(/\ op' = "get" /\ ret' = 0
      /\ \E n \in EpochRead(rd, rd') :
           /\ LinesOf(EpochRead(rd, rd'), "P", req') = {n}
           /\ HasPositionAndClock(file[n]))
       => /\ ~is_set(blk'.flag, "bad_abscent_position")
          /\ ~is_set(blk'.flag, "bad_abscent_clock")]_vars

\* C15: when the epoch a successful call has read holds no P line of the
\* requested satellite the block has absent-position and absent-clock set,
\* and when it holds no V line of it the block has absent-velocity and
\* absent-clock-rate set, whatever lines of other satellites the epoch holds.
C15_NoLineLeavesAbsentFlags ==
  [][(op' = "get" /\ ret' = 0)
       => /\ LinesOf(EpochRead(rd, rd'), "P", req') = {}
               => /\ is_set(blk'.flag, "bad_abscent_position")
                  /\ is_set(blk'.flag, "bad_abscent_clock")
          /\ LinesOf(EpochRead(rd, rd'), "V", req') = {}
               => /\ is_set(blk'.flag, "bad_abscent_velocity")
                  /\ is_set(blk'.flag, "bad_abscent_clock_rate")]_vars

----------------------------------------------------------------------------
(* Claims about index_hunt *)

\* C16: called with last_index inside the series and a time t with
\* data[0].t <= t < data[num_dpts-1].t, index_hunt returns (and
\* interpolate_at stores in last_index) an index i such that
\* data[i].t <= t < data[i+1].t.
C16_HuntBracketsQuery ==
  [][(/\ op' = "interp"
      /\ itp.num_dpts >= 2
      /\ itp.last_index \in 0..(itp.num_dpts - 1)
      /\ itp.data[1].t <= req'.t
      /\ req'.t < itp.data[itp.num_dpts].t)
       => /\ itp'.last_index \in 0..(itp.num_dpts - 2)
          /\ itp.data[itp'.last_index + 1].t <= req'.t
          /\ req'.t < itp.data[itp'.last_index + 2].t]_vars

----------------------------------------------------------------------------
(* Claims about Sp3Iterator *)

\* C17: every call of goto_epoch(t) comes to an end, whatever the target
\* time and the state of the iterator: an activation that calls itself is
\* followed by a return (or by the end of the process).
C17_GotoEpochEnds == (op = "goto_epoch") ~> (op \in {"goto", "terminate"})

\* the line the stream is at is an epoch header with a timestamp >= t
NextEpochNotBefore(t) ==
  /\ good(rd) /\ ~rd.mid
  /\ rd.pos <= Len(file)
  /\ file[rd.pos].kind = "*"
  /\ file[rd.pos].t >= t

\* C18: when goto_epoch(t) returns 0 the next line of the stream is an epoch
\* header with a timestamp >= t and the current block has a timestamp < t.
C18_StopsBeforeTarget ==
  (op = "goto" /\ ret = 0) => (NextEpochNotBefore(req) /\ blk.t < req)

\* the epoch headers from line n on that have a timestamp >= t
EpochsNotBefore(n, t) ==
  { m \in n..Len(file) : file[m].kind = "*" /\ file[m].t >= t }

\* C19: on a well-formed data section a goto_epoch(t) that reads on from the
\* current block (block_.t < t) returns -1 exactly when no epoch with a
\* timestamp >= t is left before the end of the data, and no call returns a
\* positive code but for a target earlier than the first epoch.
C19_EndOfStreamIffNoEpochLeft ==
  [][(op' = "goto" /\ WellFormed(file))
       => /\ blk.t < req' => (ret' = -1 <=> EpochsNotBefore(rd.pos, req') = {})
          /\ ret' > 0 => (file[1].kind = "*" /\ req' < file[1].t)]_vars

\* C20: every block obtained through the iterator (by its constructor, by
\* begin, advance or goto_epoch returning 0) has absent-position,
\* absent-clock, absent-velocity and absent-clock-rate set, whatever the
\* file holds.
C20_IteratorBlocksHoldNoRecord ==
  (Idle /\ ret = 0) =>
    \A e \in {"bad_abscent_position", "bad_abscent_clock",
              "bad_abscent_velocity", "bad_abscent_clock_rate"} :
      is_set(blk.flag, e)

----------------------------------------------------------------------------
(* Construction on files that hold more epochs than they declare: SpecDeclared *)

MaxFeedLines == 6

\* the epoch counts a header declares (read_header refuses 0)
DeclaredEpochs == {1, 2}

DeclaredLineSet ==
  { EpochLine(1), EpochLine(2), PLine(G01, <<11, 12, 13, 14>>, NoSdev, {}),
    EOFLine }

InitDeclared ==
  /\ head = NoHead
  /\ file \in UNION { [1..n -> DeclaredLineSet] : n \in 0..MaxFeedLines }
  /\ rd = [pos |-> end_of_head.pos, mid |-> end_of_head.mid,
           eof |-> FALSE, fail |-> FALSE]
  /\ blk = NewBlock
  /\ op = "init"
  /\ req = NoSat
  /\ ret = 0
  /\ k = 0
  /\ itp = NoInterpolator
  /\ out = NoOutput
  /\ \E n \in DeclaredEpochs : hdr = HeaderOf(n, <<G01>>)

NextDeclared == \E ms \in MaxMillisecSet : Construct(G01, ms, 1)

SpecDeclared == InitDeclared /\ [][NextDeclared]_vars

\* C21: after SvInterpolator is constructed the number of retained points is
\* at most the epoch count the header declares, and feed_from_sp3 has not
\* written a block past the end of the array it allocated with that count
\* (in the model a write past the array either ends the process, op = "crash",
\* or leaves more points than the array holds)
C21_RetainedWithinDeclared ==
  op \in {"construct", "crash"} =>
    /\ op # "crash"
    /\ itp.num_dpts <= hdr.num_epochs
    /\ itp.num_dpts <= itp.alloc

----------------------------------------------------------------------------
(* Sp3Flag on its own: SpecFlag *)

\* operator|(Sp3Event e1, Sp3Event e2): a wrapper with only e1 and e2 on
OrEvents(e1, e2) == {e1} \cup {e2}

\* operator|(Sp3FlagWrapper e1, Sp3Event e2): a copy of e1 with e2 on
OrWrapper(e1, e2) == e1 \cup {e2}

\* e1 | e2 | ... for the events of the sequence es, of two events or more
RECURSIVE OrAll(_, _)
OrAll(es, n) ==
  IF n = 2 THEN OrEvents(es[1], es[2]) ELSE OrWrapper(OrAll(es, n - 1), es[n])

\* Sp3Flag::is_clean()
is_clean(f) == f = {}

\* the events the flags of SpecFlag are made of
Events ==
  { "bad_abscent_position", "bad_abscent_clock", "clock_event", "maneuver",
    "bad_abscent_velocity", "bad_abscent_clock_rate" }

MaxEvents == 3

InitFlag ==
  /\ head = NoHead
  /\ file = <<>>
  /\ rd = [pos |-> 1, mid |-> FALSE, eof |-> FALSE, fail |-> FALSE]
  /\ blk = NewBlock
  /\ op = "init"
  /\ req = {}
  /\ ret = 0
  /\ k = 0
  /\ hdr = HeaderOf(1, <<G01>>)
  /\ itp = NoInterpolator
  /\ out = NoOutput

\* what every call on the flag leaves alone
FlagFrame == UNCHANGED <<head, file, rd, k, hdr, itp, out>>

\* flag.set(e)
Set(e) ==
  /\ blk' = [blk EXCEPT !.flag = FlagSet(@, e)]
  /\ op' = "set"
  /\ req' = {e}
  /\ ret' = 0
  /\ FlagFrame

\* flag.set(e1 | e2 | ...), the events being those of es
SetEvents(es) ==
  /\ blk' = [blk EXCEPT !.flag = FlagSetWrapper(@, OrAll(es, Len(es)))]
  /\ op' = "set_events"
  /\ req' = { es[i] : i \in 1..Len(es) }
  /\ ret' = 0
  /\ FlagFrame

\* flag.clear(e)
Clear(e) ==
  /\ blk' = [blk EXCEPT !.flag = FlagClear(@, e)]
  /\ op' = "clear"
  /\ req' = {e}
  /\ ret' = 0
  /\ FlagFrame

\* flag.reset()
Reset ==
  /\ blk' = [blk EXCEPT !.flag = FlagReset(@)]
  /\ op' = "reset"
  /\ req' = {}
  /\ ret' = 0
  /\ FlagFrame

\* flag.set_defaults()
SetDefaults ==
  /\ blk' = [blk EXCEPT !.flag = set_defaults(@)]
  /\ op' = "set_defaults"
  /\ req' = {}
  /\ ret' = 0
  /\ FlagFrame

\* flag.is_set(e) and flag.is_clean(): ret is 2 when clean, else 1 or 0
Query(e) ==
  /\ op' = "is_set"
  /\ req' = {e}
  /\ ret' = IF is_clean(blk.flag) THEN 2 ELSE IF is_set(blk.flag, e) THEN 1 ELSE 0
  /\ UNCHANGED blk
  /\ FlagFrame

NextFlag ==
  \/ \E e \in Events : Set(e)
  \/ \E n \in 2..MaxEvents : \E es \in [1..n -> Events] : SetEvents(es)
  \/ \E e \in Events : Clear(e)
  \/ Reset
  \/ SetDefaults
  \/ \E e \in Events : Query(e)

SpecFlag == InitFlag /\ [][NextFlag]_vars

\* C22: Sp3Flag::set called with a combination of several events turns on
\* every listed event and leaves the bit of every other event as it was
\* before the call, as a sequence of single-event set calls would
C22_SetOfSeveralKeepsOthers ==
  [][op' = "set_events" => blk'.flag = blk.flag \cup req']_vars

----------------------------------------------------------------------------
(* Queries on series with irregular spacing and duplicate epochs: SpecSeries *)

MaxSeries == 4

\* the epochs of the files of SpecSeries, in nanoseconds: 0, 100, 120 ms
SeriesTimes == {0, 100000000, 120000000}

\* the block get_next_data_block leaves for an epoch whose P line of G01 has
\* zero coordinates and a valid clock
AbsentPositionBlock(t) ==
  get_next_data_block(<<EpochLine(t), PLine(G01, <<0, 0, 0, 14>>, NoSdev, {}),
                        EpochLine(t)>>,
                      [pos |-> 1, mid |-> FALSE, eof |-> FALSE, fail |-> FALSE],
                      NewBlock, G01).b

\* the blocks a series is made of
SeriesBlocks ==
  { SampleBlock(t) : t \in SeriesTimes } \cup {AbsentPositionBlock(100000000)}

\* the series feed_from_sp3 retains from a file whose epochs do not decrease
SeriesSet(n) ==
  { s \in UNION { [1..m -> SeriesBlocks] : m \in 1..n } :
      \A i \in 1..(Len(s) - 1) : s[i].t <= s[i + 1].t }

\* an interpolator as its constructor leaves it on the series s
InterpolatorOver(s, ms, mp) ==
  [built |-> TRUE, svid |-> G01, num_dpts |-> Len(s), data |-> s,
   alloc |-> Len(s) + 1, last_index |-> 0, max_millisec |-> ms,
   min_dpts_on_each_side |-> mp, wsz |-> compute_workspace_size(ms, Interval)]

InitSeries ==
  /\ head = NoHead
  /\ file = <<>>
  /\ rd = [pos |-> 1, mid |-> FALSE, eof |-> FALSE, fail |-> FALSE]
  /\ blk = NewBlock
  /\ op = "init"
  /\ req = NoSat
  /\ ret = 0
  /\ k = 0
  /\ out = NoOutput
  /\ \E s \in SeriesSet(MaxSeries), ms \in InterpMillisecSet :
       /\ hdr = HeaderOf(Len(s) + 1, <<G01>>)
       /\ itp = InterpolatorOver(s, ms, 1)

SpecSeries == InitSeries /\ [][NextInterp]_vars

----------------------------------------------------------------------------
(* Claims about the window of interpolate_at *)

\* the last interpolate_at passed both of its checks on the window it
\* selected, data[out.start .. out.stop], and went on to fill the arena
WindowSelected ==
  /\ op \in {"interp", "crash"}
  /\ itp.last_index \in 0..(itp.num_dpts - 1)
  /\ itp.last_index - out.start >= itp.min_dpts_on_each_side
  /\ out.stop - itp.last_index >= itp.min_dpts_on_each_side

\* two samples of the window have the same timestamp
DuplicateInWindow ==
  \E i, j \in out.start..out.stop :
    i < j /\ itp.data[i + 1].t = itp.data[j + 1].t

C26_WindowFitsWorkspace ==
  WindowSelected =>
    /\ op # "crash"
    /\ out.stop - out.start + 1 <= compute_workspace_size(itp.max_millisec, hdr.interval)

\* C28: every sample whose state[0..3) interpolate_at feeds to the position
\* interpolation has its absent-position flag clear
C28_NoAbsentPositionInWindow ==
  WindowSelected =>
    \A i \in out.start..out.stop :
      ~is_set(itp.data[i + 1].flag, "bad_abscent_position")

\* C27: after any sequence of interpolate_at calls with arbitrary query times
\* the index returned by index_hunt and stored in last_index lies in
\* [0, num_dpts-1], so that data[last_index] is a retained sample
C27_LastIndexInsideSeries ==
  (op = "interp" /\ itp.num_dpts >= 1) =>
    itp.last_index \in 0..(itp.num_dpts - 1)

----------------------------------------------------------------------------
(* get_next_position on P lines: SpecPosition *)

MaxPositionLines == 2

\* the values of X, Y, Z and clock on the P lines of SpecPosition
PositionValues ==
  { <<11, 12, 13, 14>>, <<0, 12, 13, 14>>, <<11, 12, 0, 14>>, <<11, 12, 13, 0>>,
    <<11, 12, 13, SP3_MISSING_CLK_VALUE - 1>>, <<11, 12, 13, SP3_MISSING_CLK_VALUE>>,
    <<11, 12, 13, SP3_MISSING_CLK_VALUE + 1>>, <<0, 0, 0, SP3_MISSING_CLK_VALUE>> }

\* P lines of G01 with these values, one with a zero exponent in its std.
\* deviation columns, one whose third value does not resolve, and one of G02
PositionLineSet ==
  { PLine(G01, d, NoSdev, {}) : d \in PositionValues } \cup
  { PLine(G01, <<11, 12, 13, 0>>, <<<<1>>, <<0>>, Blank, Blank>>, {}),
    [PLine(G01, <<11, 12, 13, 14>>, NoSdev, {}) EXCEPT !.bad = 3],
    PLine(G02, <<21, 0, 23, 0>>, NoSdev, {}) }

\* the wsat arguments: nullptr, the address of the object sat refers to (what
\* get_next_data_block passes), the address of another SatelliteId
Filters ==
  { [ptr |-> "null", id |-> NoSat], [ptr |-> "sat", id |-> NoSat],
    [ptr |-> "other", id |-> G01], [ptr |-> "other", id |-> G02] }

\* the stream after an epoch header, the block as get_next_data_block leaves
\* it before it reads the records of the epoch
InitPosition ==
  /\ head = NoHead
  /\ file \in UNION { [1..n -> PositionLineSet] : n \in 1..MaxPositionLines }
  /\ rd = [pos |-> 1, mid |-> FALSE, eof |-> FALSE, fail |-> FALSE]
  /\ blk = [NewBlock EXCEPT !.flag = set_defaults(@)]
  /\ op = "init"
  /\ req = [ptr |-> "null", id |-> NoSat]
  /\ ret = 0
  /\ k = 0
  /\ hdr = HeaderOf(1, <<G01, G02>>)
  /\ itp = NoInterpolator
  /\ out = NoOutput

\* get_next_position(sat, block.state[0], ..., block.flag, wsat), called as
\* get_next_data_block does when the next line starts with 'P'; k is the line
GetNextPosition(wsat) ==
  /\ peek(file, rd).c = "P"
  /\ \E r \in {get_next_position(file, rd, blk, G01, wsat)} :
       /\ rd' = r.s
       /\ blk' = r.b
       /\ ret' = r.rc
  /\ op' = "position"
  /\ req' = wsat
  /\ k' = rd.pos
  /\ UNCHANGED <<head, file, hdr, itp, out>>

NextPosition == \E wsat \in Filters : GetNextPosition(wsat)

SpecPosition == InitPosition /\ [][NextPosition]_vars

\* the last call of get_next_position resolved the four values of its line:
\* the line passed the satellite filter and every value resolved
ValuesResolved ==
  /\ op = "position"
  /\ req.ptr = "other" => SatEq(req.id, file[k].sat)
  /\ file[k].bad = 0

\* C24 as stated: for a P line of the requested satellite absent-position is
\* set if any of X, Y, Z is exactly zero and cleared otherwise; absent-clock
\* is set if the clock value is exactly zero or is at or above the
\* missing-value sentinel (999999) and cleared otherwise
C24_ZeroOrSentinelClockAbsent ==
  ValuesResolved =>
    /\ is_set(blk.flag, "bad_abscent_position")
         <=> (\E i \in 1..3 : file[k].d[i] = 0)
    /\ is_set(blk.flag, "bad_abscent_clock")
         <=> (file[k].d[4] = 0 \/ file[k].d[4] >= SP3_MISSING_CLK_VALUE)

\* C24, amended: absent-position is set if any of X, Y, Z is exactly zero and
\* cleared otherwise; absent-clock is set if the clock value is at or above
\* the sentinel and cleared otherwise, a clock of exactly zero included
C24_SentinelClockAbsent ==
  ValuesResolved =>
    /\ is_set(blk.flag, "bad_abscent_position")
         <=> (\E i \in 1..3 : file[k].d[i] = 0)
    /\ is_set(blk.flag, "bad_abscent_clock")
         <=> file[k].d[4] >= SP3_MISSING_CLK_VALUE

\* a line with a clock of exactly zero was resolved, on a flag that held
\* absent-clock from the epoch's defaults, and absent-clock is now clear
C24_Witness ==
  /\ ValuesResolved /\ k = 1 /\ ret = 0
  /\ file[1].d[4] = 0 /\ \A i \in 1..3 : file[1].d[i] # 0
  /\ ~is_set(blk.flag, "bad_abscent_clock")
  /\ ~is_set(blk.flag, "bad_abscent_position")

----------------------------------------------------------------------------
(* compute_workspace_size on durations and intervals: SpecWorkspace *)

MaxDuration == 12
MaxIntervalMs == 8

\* dso::cast_to<dso::microseconds, dso::milliseconds>
cast_to_milliseconds(us) == us \div 1000

\* SvInterpolator::compute_workspace_size() of src/src/sv_interpolate.cpp,
\* where the interval is counted in microseconds
compute_workspace_size_ms(max_millisec, interval) ==
  LET data_every_ms == cast_to_milliseconds(interval)
      lr_points == (max_millisec \div data_every_ms) + 1
  IN lr_points * 2 + 1

\* an interpolator with a look-around of 1 .. MaxDuration milliseconds on a
\* file whose nominal interval is 1 .. MaxIntervalMs milliseconds
InitWorkspace ==
  /\ head = NoHead
  /\ file = <<>>
  /\ rd = [pos |-> 1, mid |-> FALSE, eof |-> FALSE, fail |-> FALSE]
  /\ blk = NewBlock
  /\ op = "init"
  /\ req = NoSat
  /\ ret = 0
  /\ k = 0
  /\ out = NoOutput
  /\ \E ms \in 1..MaxDuration, n \in 1..MaxIntervalMs :
       /\ hdr = [HeaderOf(1, <<G01>>) EXCEPT !.interval = n * 1000000]
       /\ itp = [InterpolatorOver(<<SampleBlock(0)>>, ms, 1) EXCEPT !.wsz = 0]

\* compute_workspace_size(), as the constructor calls it
ComputeWorkspaceSize ==
  /\ op' = "workspace"
  /\ ret' = compute_workspace_size(itp.max_millisec, hdr.interval)
  /\ itp' = [itp EXCEPT !.wsz = ret']
  /\ UNCHANGED <<head, file, rd, blk, req, k, hdr, out>>

\* compute_workspace_size() of src/src/sv_interpolate.cpp
ComputeWorkspaceSizeMs ==
  /\ op' = "workspace_ms"
  /\ ret' = compute_workspace_size_ms(itp.max_millisec, hdr.interval \div 1000)
  /\ itp' = [itp EXCEPT !.wsz = ret']
  /\ UNCHANGED <<head, file, rd, blk, req, k, hdr, out>>

NextWorkspace == ComputeWorkspaceSize \/ ComputeWorkspaceSizeMs

SpecWorkspace == InitWorkspace /\ [][NextWorkspace]_vars

\* the smallest integer not below a / b, for positive b
Ceiling(a, b) == (a + b - 1) \div b

\* max_duration and the nominal interval of the last call, in nanoseconds
Duration == itp.max_millisec * 1000000

\* C25 as stated: compute_workspace_size returns
\* ceil(max_duration / nominal_interval) * 2 + 1 for every positive
\* max_duration and nominal interval, exact multiples included
C25_CeilingTimesTwoPlusOne ==
  op \in {"workspace", "workspace_ms"} =>
    ret = Ceiling(Duration, hdr.interval) * 2 + 1

\* C25, amended: the result is ceil(max_duration / nominal_interval) * 2 + 1
\* unless max_duration is an exact multiple of the interval, where it is
\* larger by two
C25_TruncatedPlusOne ==
  op \in {"workspace", "workspace_ms"} =>
    ret = Ceiling(Duration, hdr.interval) * 2 + 1
            + (IF Duration % hdr.interval = 0 THEN 2 ELSE 0)

\* a duration of twice the interval, for which the result is 7, not 5
C25_Witness ==
  /\ op = "workspace" /\ Duration = 2 * hdr.interval /\ ret = 7

----------------------------------------------------------------------------
(* Claims about the cursor of the reader *)

\* the cursor is at the start of a line that is an epoch header or the EOF
\* sentinel
AtEpochOrEOF ==
  /\ ~rd.mid /\ rd.pos \in 1..Len(file)
  /\ file[rd.pos].kind \in {"*", "EOF"}

\* C29: whenever get_next_data_block returns success (0) the cursor sits at
\* the start of an epoch-header line or of the EOF sentinel line, never in the
\* middle of an epoch's records; whenever it returns a positive error code the
\* header metadata and the recorded start-of-data position are unchanged
\* (the members read_header filled are hdr; __end_of_head is end_of_head,
\* which no operation of the reader assigns)
C29_SuccessLeavesCursorAtEpoch ==
  [][op' = "get" =>
       /\ ret' = 0 => AtEpochOrEOF'
       /\ ret' > 0 => (hdr' = hdr /\ head' = head)]_vars

\* a successful call that read the records of an epoch and stopped in front
\* of the next epoch header
C29_Witness ==
  /\ op = "get" /\ ret = 0 /\ AtEpochOrEOF
  /\ rd.pos > 2 /\ file[rd.pos - 1].kind \in {"P", "V", "EP"}

----------------------------------------------------------------------------
(* Claims about the workspace of neville_interpolation3 *)

\* the elements of the workspace that the tableau array starting at offset
\* start covers
TableauRange(start, array_size) == start..(start + array_size - 1)

\* the offsets at which neville_interpolation3 places cx, dx, cy, dy, cz, dz
TableauOffsets(array_size) ==
  <<cx(array_size), dx(array_size), cy(array_size), dy(array_size), cz(array_size), dz(array_size)>>

\* C30: the six tableau arrays (cx, dx, cy, dy, cz, dz) that
\* neville_interpolation3 carves out of its workspace occupy pairwise
\* non-overlapping ranges of array_size elements each, within the
\* 6 * array_size elements of the workspace, for every array_size >= 1
C30_TableauArraysDisjoint ==
  (op = "neville3" /\ req.array_size >= 1) =>
     \A i, j \in 1..6 :
        /\ TableauRange(TableauOffsets(req.array_size)[i], req.array_size) \subseteq 0..(6 * req.array_size - 1)
        /\ i # j => TableauRange(TableauOffsets(req.array_size)[i], req.array_size) \cap TableauRange(TableauOffsets(req.array_size)[j], req.array_size) = {}

====
